---- MODULE Spec2Model ----
(***************************************************************************)
(* Annotate panel (src/src/app.jsx): selection tracking, per-object cache, *)
(* debounced persistence and the load/save paths against the host's        *)
(* per-object metadata store.                                              *)
(*                                                                         *)
(* JavaScript objects that the code mutates in place (section and note     *)
(* records, whose `order` field is renumbered by moveSection and friends)  *)
(* live in two heaps, secHeap and noteHeap; an array is a sequence of heap *)
(* addresses.  Values that crossed the host boundary (the metadata store,  *)
(* the payload of an issued setMetadata) are deep copies.                  *)
(*                                                                         *)
(* Time is abstract.  A timer is an entry of the queue `timers`, kept in   *)
(* the order the timers were armed; CanFire lets a timer fire only when no *)
(* timer armed before it has a wait that is no longer than its own.        *)
(*                                                                         *)
(* A host call and the delivery of its reply are one step: the store is    *)
(* read or written at the moment the awaiting code resumes.                *)
(***************************************************************************)
EXTENDS Integers, Sequences, FiniteSets, Bags, TLC

\* ------------------------------------------------------------------ bounds
\* how many inputs the environment gives in one run: selection events of the
\* host, actions of the user in the panel and failures of host calls, taken
\* together
MaxInputs == 2

\* notes per section in a record the panel starts from
MaxNotes == 2

\* ------------------------------------------------------- program constants
AUTOSAVE_DEBOUNCE_MS == 400
SELECTION_DEBOUNCE_MS == 150
MAX_PAYLOAD_SIZE == 6144
INDICATOR_SIZE == 24
INDICATOR_OFFSET == 8
THROTTLE_MS == 100

\* ------------------------------------------------------------- the board
Null == "null"
NoId == 0

Items == {"A", "B"}
HostUserId == "u1"
createdBy == [i \in Items |-> IF i = "A" THEN "u1" ELSE "u2"]

\* what a selection:update event can carry: zero, one or many items
Selections == {<<>>, <<"A">>, <<"B">>, <<"A", "B">>}

\* lengths (in bytes) of the note bodies the user can type: a short one, and
\* the two that bring the stored record of A to the ceiling and one byte over
Bodies == {2, MAX_PAYLOAD_SIZE - 500, MAX_PAYLOAD_SIZE - 499}

\* ------------------------------------------------------------ sequences
Range(s) == {s[i] : i \in 1..Len(s)}

RemoveAt(s, i) == [j \in 1..(Len(s) - 1) |-> IF j < i THEN s[j] ELSE s[j + 1]]

RECURSIVE SumSeq(_)
SumSeq(s) == IF s = <<>> THEN 0 ELSE Head(s) + SumSeq(Tail(s))

\* Array.prototype.findIndex on the id field (0 when absent, JS gives -1)
RECURSIVE FindFrom(_, _, _)
FindFrom(ids, id, i) ==
  IF i > Len(ids) THEN 0
  ELSE IF ids[i] = id THEN i
  ELSE FindFrom(ids, id, i + 1)

\* insertion of x into a sequence sorted by order, after every element whose
\* order is not greater (Array.prototype.sort is stable)
RECURSIVE InsertByOrder(_, _)
InsertByOrder(x, s) ==
  IF s = <<>> THEN <<x>>
  ELSE IF Head(s).order <= x.order THEN <<Head(s)>> \o InsertByOrder(x, Tail(s))
  ELSE <<x>> \o s

RECURSIVE SortFrom(_, _, _)
SortFrom(s, i, acc) ==
  IF i > Len(s) THEN acc ELSE SortFrom(s, i + 1, InsertByOrder(s[i], acc))

sortNotes(notes) == SortFrom(notes, 1, <<>>)

sortSections(secs) == SortFrom(secs, 1, <<>>)

\* ------------------------------------------------------------------ heap
\* the k smallest addresses not in `used`
RECURSIVE Fresh(_, _)
Fresh(used, k) ==
  IF k = 0 THEN <<>>
  ELSE LET a == CHOOSE x \in 1..(Cardinality(used) + 1) :
                  x \notin used /\ \A y \in 1..(x - 1) : y \in used
       IN <<a>> \o Fresh(used \cup {a}, k - 1)

Extend(h, addrs, vals) ==
  [a \in DOMAIN h \cup Range(addrs) |->
     IF a \in Range(addrs) THEN vals[FindFrom(addrs, a, 1)] ELSE h[a]]

Restrict(h, keep) == [a \in DOMAIN h \cap keep |-> h[a]]

\* Map.prototype.set
Put(m, k, v) == [x \in DOMAIN m \cup {k} |-> IF x = k THEN v ELSE m[x]]

\* JSON.stringify of an array of sections: a deep copy of what the heap
\* holds at the moment of the call
Serialize(arr, sh, nh) ==
  [i \in 1..Len(arr) |->
     [id |-> sh[arr[i]].id, name |-> sh[arr[i]].name, order |-> sh[arr[i]].order,
      notes |-> [j \in 1..Len(sh[arr[i]].notes) |-> nh[sh[arr[i]].notes[j]]]]]

\* the objects a reply of the host is parsed into: fresh ones
RECURSIVE Materialize(_, _, _)
Materialize(deep, i, acc) ==
  IF i > Len(deep) THEN acc
  ELSE LET d == deep[i]
           na == Fresh(DOMAIN acc.nh, Len(d.notes))
           sa == Fresh(DOMAIN acc.sh, 1)
       IN Materialize(deep, i + 1,
            [arr |-> Append(acc.arr, sa[1]),
             sh |-> Extend(acc.sh, sa,
                      <<[id |-> d.id, name |-> d.name, order |-> d.order, notes |-> na]>>),
             nh |-> Extend(acc.nh, na, d.notes)])


\* ------------------------------------------------------------ models.js
createSection(id, name, order) ==
  [id |-> id, name |-> name, order |-> order, notes |-> <<>>]

createNote(id, itemId, sectionId, body, authorId, order) ==
  [id |-> id, body |-> body, itemId |-> itemId, sectionId |-> sectionId,
   order |-> order, authorId |-> authorId]

\* a default structure without any section
createMetadataStructureBlank(id, authorId) ==
  [sections |-> <<>>, authorId |-> authorId]

\* models.js 42-47: the structure of an item that has no record yet
createMetadataStructure(id, authorId) ==
  [sections |-> <<createSection(id, "General", 0)>>, authorId |-> authorId]

\* ------------------------------------------------------- metadata records
NoAnnotate ==
  [present |-> FALSE, shape |-> "none", sections |-> <<>>, authorId |-> Null, src |-> Null]

\* the value stored under METADATA_KEY; src is a history field: the object
\* whose load the sections descend from
Annotate(deep, authorId, src) ==
  [present |-> TRUE, shape |-> "v1", sections |-> deep, authorId |-> authorId, src |-> src]

\* a record that is there but is no v1 record: the single-record shape of
\* before (content, no sections: "legacy"), or one whose sections is not an
\* array, such as an object or a number ("malformed")
Corrupt(shape) ==
  [present |-> TRUE, shape |-> shape, sections |-> <<>>, authorId |-> Null, src |-> Null]

\* the namespace object item.getMetadata(APP_ID) returns
Namespace(annotate, widget) == [annotate |-> annotate, indicatorWidgetId |-> widget]

\* size in bytes of JSON.stringify(metadata): the envelope, each section and
\* each note cost their keys and fixed-width fields, a note body its length
JsonSize(deep) ==
  80 + SumSeq([i \in 1..Len(deep) |->
                 100 + SumSeq([j \in 1..Len(deep[i].notes) |->
                                 220 + deep[i].notes[j].body])])

\* a size check that also turns away a record of exactly the ceiling
checkPayloadSizeStrict(deep) ==
  [isValid |-> JsonSize(deep) < MAX_PAYLOAD_SIZE,
   size |-> JsonSize(deep),
   maxSize |-> MAX_PAYLOAD_SIZE]

checkPayloadSize(deep) ==
  [isValid |-> JsonSize(deep) <= MAX_PAYLOAD_SIZE,
   size |-> JsonSize(deep),
   maxSize |-> MAX_PAYLOAD_SIZE]

\* Math.round(n / 1024)
KB(n) == (2 * n + 1024) \div 2048

\* the values of the error state: setError(null) and the three messages
NoError == <<>>
LoadFailed == <<"Failed to load annotations">>
SaveFailed == <<"Failed to save">>
TooLarge(sizeCheck) == <<"Data too large", KB(sizeCheck.size), KB(sizeCheck.maxSize)>>

\* ------------------------------------------------------------------ state
VARIABLES
  store,              \* host: item.getMetadata / item.setMetadata, per item
  hostSelection,      \* host: what miro.board.getSelection() returns
  selectedItem, selectedItemId, sections, activeNoteId, activeSectionId,
  isEditor, currentUserId, selectionCount,
  editingNoteId, editingNoteBody, isDirty,
  isLoading, isSaving, error, currentView,
  metadataCacheRef,   \* Map: item id -> array of sections
  editingItemIdRef,
  secHeap, noteHeap,  \* the section and the note objects in memory
  listeners,          \* number of handlers registered for selection:update
  timers,             \* armed setTimeout timers, oldest first
  tasks,              \* async functions suspended at an await (a bag)
  nextId,             \* generateId
  inputs,             \* number of inputs given so far
  sectionsSrc, cacheSrc,   \* history: the object a value was loaded for
  handled,            \* history: handler runs per selection event
  known,              \* history: objects read from or written to the host
  seen,               \* history: the code paths taken so far
  widgets,            \* host: the marker widgets on the canvas, by id
  bounds,             \* host: the bounding box of each item (Null: none)
  calls,              \* indicator functions suspended at an await (a bag)
  inThrottle,         \* throttle: the flag of throttledUpdateIndicatorPosition
  nextWidget          \* host: how many widget ids it has given out

hostVars == <<store, hostSelection>>
selVars == <<selectedItem, selectedItemId, selectionCount>>
noteVars == <<activeNoteId, activeSectionId, editingNoteId, editingNoteBody, currentView>>
flagVars == <<isLoading, isSaving, error, isDirty>>
heapVars == <<secHeap, noteHeap>>
ctrVars == <<nextId, inputs>>
indVars == <<widgets, bounds, calls, inThrottle, nextWidget>>
vars == <<hostVars, selVars, noteVars, flagVars, heapVars, ctrVars,
          sections, isEditor, currentUserId, metadataCacheRef, editingItemIdRef,
          listeners, timers, tasks, sectionsSrc, cacheSrc, handled, known, seen,
          indVars>>

\* ---------------------------------------------------------------- timers
SelTimer(inst, ev, items) ==
  [kind |-> "sel", wait |-> SELECTION_DEBOUNCE_MS, inst |-> inst, live |-> TRUE,
   ev |-> ev, items |-> items, item |-> Null, arr |-> <<>>, isEd |-> FALSE,
   uid |-> Null, src |-> Null, moved |-> FALSE]

\* a timer of debouncedSave: the arguments of the call and the isEditor and
\* currentUserId that the saveMetadata behind it closed over; live says that
\* it belongs to the debouncedSave of the current render
SaveTimer(item, arr, isEd, uid, src) ==
  [kind |-> "save", wait |-> AUTOSAVE_DEBOUNCE_MS, inst |-> 0, live |-> TRUE,
   ev |-> 0, items |-> <<>>, item |-> item, arr |-> arr, isEd |-> isEd,
   uid |-> uid, src |-> src, moved |-> FALSE]

\* debounce: the returned function clears its own pending timer (mine) and
\* arms a new one
debounce(q, mine, t) == Append(SelectSeq(q, LAMBDA x : x \notin mine), t)

\* the pending timer of the i-th registered handler, and that of the
\* debouncedSave of the current render
IsListener(q, i) == {x \in Range(q) : x.kind = "sel" /\ x.inst = i}
IsDebouncedSave(q) == {x \in Range(q) : x.kind = "save" /\ x.live}

\* a timer fires when its wait has elapsed: never before a timer that was
\* armed earlier with a wait that is not longer
CanFire(q, i) == \A j \in 1..(i - 1) : q[j].wait > q[i].wait

\* a render with a new saveMetadata (its dependencies isEditor, currentUserId
\* or sections changed) makes a new debouncedSave; the timers of the old one
\* stay armed
Retire(q) == [i \in 1..Len(q) |-> IF q[i].kind = "save" THEN [q[i] EXCEPT !.live = FALSE] ELSE q[i]]

\* ----------------------------------------------------------------- tasks
NoPayload == [annotate |-> NoAnnotate, indicatorWidgetId |-> Null]

\* an async function suspended at an await: initApp and the effect's
\* getSelection, a selection handler in checkIsEditor ("role") or in
\* loadMetadata ("load"), a saveMetadata in getMetadata ("saveGet") or in
\* setMetadata ("saveSet")
Task(kind, item, inst) ==
  [kind |-> kind, item |-> item, inst |-> inst, arr |-> <<>>,
   payload |-> NoPayload, uid |-> Null, src |-> Null, moved |-> FALSE]

SaveTask(kind, t, payload) ==
  [kind |-> kind, item |-> t.item, inst |-> 0, arr |-> t.arr,
   payload |-> payload, uid |-> t.uid, src |-> t.src, moved |-> t.moved]

One(t) == SetToBag({t})

Resume(ts, t, next) == (ts (-) One(t)) (+) One(next)

\* -------------------------------------------------------------- reachable
ReachSec(secs, cache, q, ts) ==
  Range(secs) \cup UNION {Range(cache[k]) : k \in DOMAIN cache}
    \cup UNION {Range(q[i].arr) : i \in 1..Len(q)}
    \cup UNION {Range(t.arr) : t \in BagToSet(ts)}

ReachNote(sh) == UNION {Range(sh[a].notes) : a \in DOMAIN sh}

\* objects that nothing refers to any more leave the heap
Collect(sh, nh) ==
  /\ secHeap' = Restrict(sh, ReachSec(sections', metadataCacheRef', timers', tasks'))
  /\ noteHeap' = Restrict(nh, ReachNote(secHeap'))

\* ------------------------------------------------------------------ canvas
\* the ids the host gives to the widgets it creates, in this order
WidgetIds == <<"w1", "w2", "w3", "w4", "w5", "w6">>

\* item.bounds as <<x, y, width, height>>; NoBox: the item has no bounds
NoBox == <<>>
BoxOf == [i \in Items |-> IF i = "A" THEN <<0, 0, 100, 40>> ELSE <<200, 0, 60, 60>>]
MovedBox == <<50, 30, 100, 40>>

\* part_000 22-33; no position for an item without bounds
calculateIndicatorPosition(box) ==
  IF box = NoBox THEN <<>>
  ELSE <<box[1] + box[3] - INDICATOR_SIZE \div 2 - INDICATOR_OFFSET,
         box[2] - box[4] \div 2 + INDICATOR_SIZE \div 2 + INDICATOR_OFFSET>>

\* a marker widget: the item it was created for and where it stands
Marker(item, position) == [item |-> item, position |-> position]

\* the canvas as the panel finds it: the marker w1 of A is on it, no
\* indicator function is running
Canvas(box) ==
  /\ widgets = Put(<<>>, WidgetIds[1], Marker("A", calculateIndicatorPosition(BoxOf["A"])))
  /\ bounds = box
  /\ calls = EmptyBag
  /\ inThrottle = FALSE
  /\ nextWidget = 1

\* ------------------------------------------------------------------- init
StoredA ==
  <<[id |-> 1, name |-> "General", order |-> 0,
     notes |-> <<createNote(3, "A", 1, 2, "u1", 0)>>],
    [id |-> 2, name |-> "Ideas", order |-> 1, notes |-> <<>>]>>

\* the panel opens on a board where A holds a record and B holds recordOfB
Boot(selection, recordOfB) ==
  /\ store = [i \in Items |->
               IF i = "A" THEN Namespace(Annotate(StoredA, "u1", "A"), "w1")
               ELSE Namespace(recordOfB, Null)]
  /\ hostSelection = selection
  /\ selectedItem = Null /\ selectedItemId = Null /\ selectionCount = 0
  /\ sections = <<>> /\ sectionsSrc = Null
  /\ activeNoteId = NoId /\ activeSectionId = NoId
  /\ editingNoteId = NoId /\ editingNoteBody = 0
  /\ isEditor = FALSE /\ currentUserId = Null
  /\ isDirty = FALSE /\ isLoading = FALSE /\ isSaving = FALSE
  /\ error = NoError /\ currentView = "list"
  /\ metadataCacheRef = <<>> /\ cacheSrc = <<>>
  /\ editingItemIdRef = Null
  /\ secHeap = <<>> /\ noteHeap = <<>>
  /\ listeners = 1
  /\ timers = <<>>
  /\ tasks = SetToBag({Task("initApp", Null, 0), Task("getSelection", Null, 1)})
  /\ nextId = 4
  /\ Canvas(BoxOf)
  /\ inputs = 0
  /\ handled = [e \in 1..MaxInputs |-> 0]
  /\ known = {}
  /\ seen = {}

Init == \E selection \in {<<>>, <<"A">>} : Boot(selection, NoAnnotate)

\* the same panel on a board where B holds a record that is not a v1 record
InitCorrupt == \E shape \in {"legacy", "malformed"} : Boot(<<"A">>, Corrupt(shape))


\* ------------------------------------------------------- host call faults
\* a host call either succeeds or, while the fault budget lasts, fails
Outcome(ok) == ok \/ inputs < MaxInputs
Count(ok) == IF ok THEN inputs ELSE inputs + 1

\* ------------------------------------------------------------- bootstrap
\* app.jsx 43-52, 114-118: initApp resolves.  A user id makes a new
\* loadMetadata, hence a new handleSelectionUpdate, and the listener effect
\* (316-327) runs again: it registers the new handler beside the old one and
\* asks for the selection once more.
InitAppDone(t, ok) ==
  /\ t \in BagToSet(tasks) /\ t.kind = "initApp"
  /\ Outcome(ok)
  /\ inputs' = Count(ok)
  /\ IF ok
     THEN /\ currentUserId' = HostUserId
          /\ listeners' = listeners + 1
          /\ tasks' = Resume(tasks, t, Task("getSelection", Null, listeners + 1))
          /\ timers' = Retire(timers)
     ELSE /\ tasks' = tasks (-) One(t)
          /\ UNCHANGED <<currentUserId, listeners, timers>>
  /\ UNCHANGED <<hostVars, selVars, noteVars, flagVars, heapVars, nextId,
                 sections, isEditor, metadataCacheRef, editingItemIdRef,
                 sectionsSrc, cacheSrc, handled, known, seen>>
  /\ UNCHANGED indVars

\* app.jsx 319-326: getSelection resolves and its items go through the
\* debounced handler of that effect run
GetSelectionDone(t, ok) ==
  /\ t \in BagToSet(tasks) /\ t.kind = "getSelection"
  /\ Outcome(ok)
  /\ inputs' = Count(ok)
  /\ tasks' = tasks (-) One(t)
  /\ timers' = IF ok
               THEN debounce(timers, IsListener(timers, t.inst),
                             SelTimer(t.inst, 0, hostSelection))
               ELSE timers
  /\ UNCHANGED <<hostVars, selVars, noteVars, flagVars, heapVars, nextId,
                 sections, isEditor, currentUserId, metadataCacheRef, editingItemIdRef,
                 listeners, sectionsSrc, cacheSrc, handled, known, seen>>
  /\ UNCHANGED indVars

\* --------------------------------------------------------------- selection
\* every registered handler is a debounced function of its own
RECURSIVE Notify(_, _, _, _)
Notify(q, i, ev, items) ==
  IF i = 0 THEN q
  ELSE LET rest == Notify(q, i - 1, ev, items)
       IN debounce(rest, IsListener(rest, i), SelTimer(i, ev, items))

\* history: a pending save of object A has seen the selection move to
\* another single object
MarkMoved(q, items) ==
  [i \in 1..Len(q) |->
     IF q[i].kind = "save" /\ Len(items) = 1 /\ items # <<q[i].item>>
     THEN [q[i] EXCEPT !.moved = TRUE] ELSE q[i]]

\* the environment gives its inputs once the start-up of the panel is over:
\* initApp and the effect's getSelection calls have resolved and the
\* handler runs they armed have started
Booted ==
  /\ \A t \in BagToSet(tasks) : t.kind \notin {"initApp", "getSelection"}
  /\ \A i \in 1..Len(timers) : ~(timers[i].kind = "sel" /\ timers[i].ev = 0)

\* the host reports a new selection to every selection:update listener
SelectionEvent(items) ==
  /\ items \in Selections
  /\ items # hostSelection
  /\ Booted
  /\ inputs < MaxInputs
  /\ inputs' = inputs + 1
  /\ hostSelection' = items
  /\ timers' = Notify(MarkMoved(timers, items), listeners, inputs + 1, items)
  /\ UNCHANGED <<store, selVars, noteVars, flagVars, heapVars, nextId,
                 sections, isEditor, currentUserId, metadataCacheRef, editingItemIdRef,
                 listeners, tasks, sectionsSrc, cacheSrc, handled, known, seen>>
  /\ UNCHANGED indVars

Bump(h, ev, n) == IF ev \in DOMAIN h THEN [h EXCEPT ![ev] = @ + n] ELSE h

\* the timers that one selection:update event armed, one per registered
\* handler, expire together and run back to back
Batch(q, i) == {j \in 1..Len(q) : j = i \/ (q[i].ev # 0 /\ q[j].kind = "sel" /\ q[j].ev = q[i].ev)}

\* app.jsx 278-311: the debounced handler runs, up to its first await
handleSelectionUpdate(i) ==
  /\ i \in 1..Len(timers) /\ timers[i].kind = "sel"
  /\ CanFire(timers, i)
  /\ LET selectedItems == timers[i].items
         n == Cardinality(Batch(timers, i))
         call == Task("role", selectedItems[1], 0)
     IN /\ selectionCount' = Len(selectedItems)
        /\ handled' = Bump(handled, timers[i].ev, n)
        /\ IF Len(selectedItems) = 1
           THEN /\ selectedItem' = selectedItems[1]
                /\ selectedItemId' = selectedItems[1]
                /\ tasks' = tasks (+) [x \in {call} |-> n]
                /\ UNCHANGED <<noteVars, isDirty>>
           ELSE /\ selectedItem' = Null
                /\ selectedItemId' = Null
                /\ activeNoteId' = NoId
                /\ activeSectionId' = NoId
                /\ editingNoteId' = NoId
                /\ isDirty' = FALSE
                /\ currentView' = "list"
                /\ UNCHANGED <<editingNoteBody, tasks>>
  /\ timers' = SelectSeq([j \in 1..Len(timers) |->
                            IF j \in Batch(timers, i) THEN [timers[j] EXCEPT !.kind = "fired"]
                            ELSE timers[j]],
                         LAMBDA x : x.kind # "fired")
  /\ UNCHANGED <<hostVars, heapVars, sections, metadataCacheRef, isLoading,
                 isSaving, error, ctrVars,
                 isEditor, currentUserId, editingItemIdRef,
                 listeners, sectionsSrc, cacheSrc, known, seen>>
  /\ UNCHANGED indVars

\* app.jsx 55-66
checkIsEditor(item, ok) ==
  IF item = Null THEN FALSE
  ELSE IF ok THEN HostUserId # Null /\ createdBy[item] = HostUserId
  ELSE FALSE

\* a loadMetadata that never finds its object in the cache
CacheHasNever(itemId) == FALSE

\* app.jsx 135: metadataCacheRef.current.has(itemId)
CacheHas(itemId) == itemId \in DOMAIN metadataCacheRef

\* app.jsx 297-300 and 121-148: checkIsEditor resolves, the role is set and
\* loadMetadata runs up to its getMetadata call
RoleResolved(t, ok) ==
  /\ t \in BagToSet(tasks) /\ t.kind = "role"
  /\ Outcome(ok)
  /\ inputs' = Count(ok)
  /\ LET item == t.item
         itemId == item
     IN /\ isEditor' = checkIsEditor(item, ok)
        /\ editingItemIdRef' = itemId
        /\ IF CacheHas(itemId)
           THEN /\ sections' = metadataCacheRef[itemId]
                /\ sectionsSrc' = cacheSrc[itemId]
                /\ tasks' = tasks (-) One(t)
                /\ seen' = IF itemId \in known THEN seen \cup {"cached"} ELSE seen
                /\ UNCHANGED <<isLoading, error>>
           ELSE /\ isLoading' = TRUE
                /\ error' = NoError
                /\ tasks' = Resume(tasks, t, Task("load", item, 0))
                /\ UNCHANGED <<sections, sectionsSrc, seen>>
  /\ timers' = IF isEditor' # isEditor \/ sections' # sections THEN Retire(timers) ELSE timers
  /\ UNCHANGED metadataCacheRef
  /\ Collect(secHeap, noteHeap)
  /\ UNCHANGED <<hostVars, selVars, noteVars, isSaving, isDirty, nextId,
                 currentUserId, listeners, cacheSrc, handled, known>>
  /\ UNCHANGED indVars


\* app.jsx 152-157: sections sorted by order, and the notes of each
sortLoaded(deep) ==
  LET sorted == sortSections(deep)
  IN [i \in 1..Len(sorted) |-> [sorted[i] EXCEPT !.notes = sortNotes(@)]]

\* app.jsx 152-157: sections that is there but is no array makes the spread
\* in sortSections throw a TypeError, which lands in the catch at 180
Throws(annotateData) == annotateData.present /\ annotateData.shape = "malformed"

\* app.jsx 147-185: getMetadata of loadMetadata resolves
LoadResolved(t, ok) ==
  /\ t \in BagToSet(tasks) /\ t.kind = "load"
  /\ Outcome(ok)
  /\ inputs' = Count(ok)
  /\ tasks' = tasks (-) One(t)
  /\ isLoading' = FALSE
  /\ LET itemId == t.item
         annotateData == store[itemId].annotate
     IN IF ~ok \/ Throws(annotateData)
        THEN /\ error' = LoadFailed
             /\ UNCHANGED <<sections, sectionsSrc, metadataCacheRef, cacheSrc, nextId, timers, known>>
             /\ Collect(secHeap, noteHeap)
        ELSE IF annotateData.present /\ annotateData.shape = "v1"
        THEN LET m == Materialize(sortLoaded(annotateData.sections), 1,
                                  [arr |-> <<>>, sh |-> secHeap, nh |-> noteHeap])
             IN /\ sections' = m.arr
                /\ metadataCacheRef' = Put(metadataCacheRef, itemId, m.arr)
                /\ timers' = Retire(timers)
                /\ Collect(m.sh, m.nh)
                /\ sectionsSrc' = itemId
                /\ cacheSrc' = Put(cacheSrc, itemId, itemId)
                /\ known' = known \cup {itemId}
                /\ UNCHANGED <<error, nextId>>
        ELSE LET defaultMetadata == createMetadataStructure(nextId, currentUserId)
                 a == Fresh(DOMAIN secHeap, Len(defaultMetadata.sections))
             IN /\ sections' = a
                /\ metadataCacheRef' = Put(metadataCacheRef, itemId, a)
                /\ timers' = Retire(timers)
                /\ Collect(Extend(secHeap, a, defaultMetadata.sections), noteHeap)
                /\ nextId' = nextId + 1
                /\ sectionsSrc' = itemId
                /\ cacheSrc' = Put(cacheSrc, itemId, itemId)
                /\ known' = known \cup {itemId}
                /\ UNCHANGED error
  /\ UNCHANGED <<hostVars, selVars, noteVars, isSaving, isDirty,
                 isEditor, currentUserId, editingItemIdRef, listeners, handled, seen>>
  /\ UNCHANGED indVars

\* ------------------------------------------------------------------ edits
\* app.jsx 1398-1453: the panel shows the sections of a single selection
\* once it is not loading, as a list or as the editor of the active note
PanelShown == selectionCount = 1 /\ ~isLoading

NoteIds(arr) == UNION {{noteHeap[n].id : n \in Range(secHeap[a].notes)} : a \in Range(arr)}

ListShown == PanelShown /\ currentView # "editor"

EditorShown ==
  /\ PanelShown /\ currentView = "editor"
  /\ activeNoteId # NoId /\ editingNoteId # NoId
  /\ activeNoteId \in NoteIds(sections)

\* app.jsx 267-274 with 69-79: debouncedSave(item, sectionsToSave), called by
\* an edit that also sets a new sections array, which retires this
\* debouncedSave at the next render
debouncedSave(q, item, sectionsToSave) ==
  Retire(debounce(q, IsDebouncedSave(q),
                  SaveTimer(item, sectionsToSave, isEditor, currentUserId, sectionsSrc)))

EditFrame ==
  /\ Booted
  /\ inputs < MaxInputs
  /\ inputs' = inputs + 1
  /\ isDirty' = TRUE
  /\ UNCHANGED <<hostVars, selVars, isLoading, isSaving, error,
                 isEditor, currentUserId, metadataCacheRef, editingItemIdRef,
                 listeners, tasks, sectionsSrc, cacheSrc, handled, known, seen>>
  /\ UNCHANGED indVars

\* app.jsx 330-340
addSection ==
  /\ ListShown /\ isEditor
  /\ ~(~isEditor \/ selectedItem = Null)
  /\ EditFrame
  /\ LET a == Fresh(DOMAIN secHeap, 1)
         newSection == createSection(nextId, "New Section", Len(sections))
         updatedSections == a \o sections
     IN /\ sections' = updatedSections
        /\ timers' = debouncedSave(timers, selectedItem, updatedSections)
        /\ Collect(Extend(secHeap, a, <<newSection>>), noteHeap)
  /\ nextId' = nextId + 1
  /\ UNCHANGED noteVars

Ids(arr, sh) == [i \in 1..Len(arr) |-> sh[arr[i]].id]

Swap(s, i, j) == [s EXCEPT ![i] = s[j], ![j] = s[i]]

\* a forEach that leaves every order as it is
RenumberNone(h, arr) == h

\* forEach((s, i) => s.order = i) and forEach((n, i) => n.order = i): the
\* objects themselves are renumbered
Renumber(h, arr) ==
  [a \in DOMAIN h |->
     IF a \in Range(arr) THEN [h[a] EXCEPT !.order = FindFrom(arr, a, 1) - 1] ELSE h[a]]

\* app.jsx 403-429
moveSection(sectionId, direction) ==
  /\ ListShown /\ isEditor
  /\ ~(~isEditor \/ selectedItem = Null)
  /\ EditFrame
  /\ LET index == FindFrom(Ids(sections, secHeap), sectionId, 1)
         newIndex == IF direction = "up" THEN index - 1 ELSE index + 1
     IN /\ index # 0
        /\ ~(newIndex < 1 \/ newIndex > Len(sections))
        /\ LET updatedSections == Swap(sections, index, newIndex)
           IN /\ sections' = updatedSections
              /\ timers' = debouncedSave(timers, selectedItem, updatedSections)
              /\ Collect(Renumber(secHeap, updatedSections), noteHeap)
  /\ UNCHANGED <<noteVars, nextId>>

\* app.jsx 490-505
selectNote(noteId, sectionId) ==
  /\ ListShown
  /\ \E a \in Range(sections) :
       /\ secHeap[a].id = sectionId
       /\ \E n \in Range(secHeap[a].notes) :
            /\ noteHeap[n].id = noteId
            /\ editingNoteBody' = noteHeap[n].body
  /\ activeNoteId' = noteId
  /\ activeSectionId' = sectionId
  /\ editingNoteId' = noteId
  /\ currentView' = "editor"
  /\ Booted /\ inputs < MaxInputs /\ inputs' = inputs + 1
  /\ UNCHANGED <<hostVars, selVars, flagVars, heapVars, nextId, sections, isEditor,
                 currentUserId, metadataCacheRef, editingItemIdRef, listeners, timers,
                 tasks, sectionsSrc, cacheSrc, handled, known, seen>>
  /\ UNCHANGED indVars

\* app.jsx 507-512
goBackToList ==
  /\ EditorShown
  /\ currentView' = "list"
  /\ Booted /\ inputs < MaxInputs /\ inputs' = inputs + 1
  /\ UNCHANGED <<hostVars, selVars, flagVars, heapVars, nextId, sections, isEditor,
                 currentUserId, metadataCacheRef, editingItemIdRef, listeners, timers,
                 tasks, sectionsSrc, cacheSrc, handled, known, seen,
                 activeNoteId, activeSectionId, editingNoteId, editingNoteBody>>
  /\ UNCHANGED indVars

\* section.notes.map(note => note.id === noteId ? {...note, ...updates} : note)
RECURSIVE MapNotes(_, _, _, _, _)
MapNotes(notes, j, noteId, body, acc) ==
  IF j > Len(notes) THEN acc
  ELSE IF acc.nh[notes[j]].id = noteId
  THEN LET n == Fresh(DOMAIN acc.nh, 1)
       IN MapNotes(notes, j + 1, noteId, body,
            [out |-> acc.out \o n,
             nh |-> Extend(acc.nh, n, <<[acc.nh[notes[j]] EXCEPT !.body = body]>>)])
  ELSE MapNotes(notes, j + 1, noteId, body, [acc EXCEPT !.out = Append(@, notes[j])])

\* sections.map(section => ({...section, notes: ...})): every section object
\* is a new one
RECURSIVE MapSections(_, _, _, _, _)
MapSections(arr, i, noteId, body, acc) ==
  IF i > Len(arr) THEN acc
  ELSE LET s == acc.sh[arr[i]]
           ns == MapNotes(s.notes, 1, noteId, body, [out |-> <<>>, nh |-> acc.nh])
           a == Fresh(DOMAIN acc.sh, 1)
       IN MapSections(arr, i + 1, noteId, body,
            [arr |-> acc.arr \o a,
             sh |-> Extend(acc.sh, a, <<[s EXCEPT !.notes = ns.out]>>),
             nh |-> ns.nh])

\* app.jsx 514-533
updateNote(noteId, body) ==
  /\ ~(~isEditor \/ selectedItem = Null)
  /\ EditFrame
  /\ LET m == MapSections(sections, 1, noteId, body,
                          [arr |-> <<>>, sh |-> secHeap, nh |-> noteHeap])
     IN /\ sections' = m.arr
        /\ timers' = debouncedSave(timers, selectedItem, m.arr)
        /\ Collect(m.sh, m.nh)

\* app.jsx 666-675, called by the editor's input (1247-1250)
handleNoteBodyChange(value) ==
  /\ EditorShown /\ isEditor
  /\ value \in Bodies
  /\ editingNoteBody' = value
  /\ editingNoteId # NoId
  /\ updateNote(editingNoteId, value)
  /\ UNCHANGED <<activeNoteId, activeSectionId, editingNoteId, currentView, nextId>>


\* sections.map(s => s.id === sectionId ? {...s, notes} : s): the section
\* with this id becomes a new object that holds these notes
WithNotes(arr, sh, sectionId, notes) ==
  LET index == FindFrom(Ids(arr, sh), sectionId, 1)
      a == Fresh(DOMAIN sh, 1)
  IN [arr |-> [arr EXCEPT ![index] = a[1]],
      sh |-> Extend(sh, a, <<[sh[arr[index]] EXCEPT !.notes = notes]>>)]

\* sections.find(s => s.id === sectionId)?.notes
NotesOf(sectionId) ==
  LET index == FindFrom(Ids(sections, secHeap), sectionId, 1)
  IN IF index = 0 THEN <<>> ELSE secHeap[sections[index]].notes

\* app.jsx 432-470, called by createNewNote (472-488) of the list page
createNoteInSection(sectionId) ==
  /\ ListShown
  /\ ~(~isEditor \/ selectedItem = Null)
  /\ FindFrom(Ids(sections, secHeap), sectionId, 1) # 0
  /\ EditFrame
  /\ LET notesCount == Len(NotesOf(sectionId))
         newNote == createNote(nextId, selectedItem, sectionId, 0, currentUserId, notesCount)
         n == Fresh(DOMAIN noteHeap, 1)
         m == WithNotes(sections, secHeap, sectionId, NotesOf(sectionId) \o n)
     IN /\ sections' = m.arr
        /\ timers' = debouncedSave(timers, selectedItem, m.arr)
        /\ Collect(m.sh, Extend(noteHeap, n, <<newNote>>))
        /\ activeSectionId' = sectionId
        /\ activeNoteId' = newNote.id
        /\ editingNoteId' = newNote.id
  /\ editingNoteBody' = 0
  /\ currentView' = "editor"
  /\ nextId' = nextId + 1

\* models.js 50-55: without sections a section made on the spot, else the
\* first section named General, else the first section
getDefaultSection(arr, sh, id) ==
  IF Len(arr) = 0 THEN createSection(id, "General", 0)
  ELSE LET general == {i \in 1..Len(arr) : sh[arr[i]].name = "General"}
       IN IF general # {}
          THEN sh[arr[CHOOSE i \in general : \A k \in general : i <= k]]
          ELSE sh[arr[1]]

\* app.jsx 472-488.  The section that getDefaultSection makes for an empty
\* sections has an id, so line 476 finds a sectionId and createNoteInSection
\* runs for a section that is not in sections, where it returns at 437.  In
\* the branch at 476-483 createNoteInSection would run with the sections of
\* this render, which do not hold the new section either.
createNewNote ==
  /\ ListShown
  /\ ~(~isEditor \/ selectedItem = Null)
  /\ LET defaultSection == getDefaultSection(sections, secHeap, nextId)
         sectionId == defaultSection.id
     IN IF sectionId = NoId
        THEN LET a == Fresh(DOMAIN secHeap, 1)
                 generalSection == createSection(nextId, "General", 0)
             IN /\ Booted
                /\ inputs < MaxInputs
                /\ inputs' = inputs + 1
                /\ sections' = a
                /\ timers' = Retire(timers)
                /\ Collect(Extend(secHeap, a, <<generalSection>>), noteHeap)
                /\ nextId' = nextId + 1
                /\ UNCHANGED <<hostVars, selVars, noteVars, flagVars,
                               isEditor, currentUserId, metadataCacheRef, editingItemIdRef,
                               listeners, tasks, sectionsSrc, cacheSrc, handled, known, seen,
                               indVars>>
        ELSE IF FindFrom(Ids(sections, secHeap), sectionId, 1) # 0
        THEN createNoteInSection(sectionId)
        ELSE /\ Booted
             /\ inputs < MaxInputs
             /\ inputs' = inputs + 1
             /\ nextId' = nextId + 1
             /\ UNCHANGED <<hostVars, selVars, noteVars, flagVars, heapVars,
                            sections, isEditor, currentUserId, metadataCacheRef,
                            editingItemIdRef, listeners, timers, tasks, sectionsSrc,
                            cacheSrc, handled, known, seen, indVars>>

\* app.jsx 535-572, with the confirmation given; the notes that stay are
\* renumbered as the objects they are
deleteNote(noteId, sectionId) ==
  /\ ListShown /\ isEditor
  /\ ~(~isEditor \/ selectedItem = Null)
  /\ EditFrame
  /\ LET notes == NotesOf(sectionId)
         noteIndex == FindFrom(Ids(notes, noteHeap), noteId, 1)
     IN IF noteIndex = 0
        THEN /\ sections' = sections
             /\ timers' = debouncedSave(timers, selectedItem, sections)
             /\ Collect(secHeap, noteHeap)
        ELSE LET updatedNotes == RemoveAt(notes, noteIndex)
                 m == WithNotes(sections, secHeap, sectionId, updatedNotes)
             IN /\ sections' = m.arr
                /\ timers' = debouncedSave(timers, selectedItem, m.arr)
                /\ Collect(m.sh, Renumber(noteHeap, updatedNotes))
  /\ IF activeNoteId = noteId
     THEN activeNoteId' = NoId /\ editingNoteId' = NoId /\ editingNoteBody' = 0
     ELSE UNCHANGED <<activeNoteId, editingNoteId, editingNoteBody>>
  /\ UNCHANGED <<activeSectionId, currentView, nextId>>

\* app.jsx 574-608
moveNote(noteId, sectionId, direction) ==
  /\ ListShown /\ isEditor
  /\ ~(~isEditor \/ selectedItem = Null)
  /\ EditFrame
  /\ LET notes == NotesOf(sectionId)
         noteIndex == FindFrom(Ids(notes, noteHeap), noteId, 1)
         newIndex == IF direction = "up" THEN noteIndex - 1 ELSE noteIndex + 1
     IN /\ FindFrom(Ids(sections, secHeap), sectionId, 1) # 0
        /\ noteIndex # 0
        /\ ~(newIndex < 1 \/ newIndex > Len(notes))
        /\ LET updatedNotes == Swap(notes, noteIndex, newIndex)
               m == WithNotes(sections, secHeap, sectionId, updatedNotes)
           IN /\ sections' = m.arr
              /\ timers' = debouncedSave(timers, selectedItem, m.arr)
              /\ Collect(m.sh, Renumber(noteHeap, updatedNotes))
  /\ UNCHANGED <<noteVars, nextId>>

\* app.jsx 610-652; no control of the panel calls it, it is called here with
\* every note and every pair of sections.  A section that is both the source
\* and the target takes the first branch of the map only.
moveNoteToSection(noteId, fromSectionId, toSectionId) ==
  /\ PanelShown
  /\ ~(~isEditor \/ selectedItem = Null)
  /\ EditFrame
  /\ LET fromNotes == NotesOf(fromSectionId)
         noteIndex == FindFrom(Ids(fromNotes, noteHeap), noteId, 1)
     IN /\ noteIndex # 0
        /\ FindFrom(Ids(sections, secHeap), toSectionId, 1) # 0
        /\ LET note == noteHeap[fromNotes[noteIndex]]
               updatedNotes == RemoveAt(fromNotes, noteIndex)
               removed == WithNotes(sections, secHeap, fromSectionId, updatedNotes)
               notesCount == Len(NotesOf(toSectionId))
               updatedNote == [note EXCEPT !.sectionId = toSectionId, !.order = notesCount]
               n == Fresh(DOMAIN noteHeap, 1)
               added == WithNotes(removed.arr, removed.sh, toSectionId,
                                  NotesOf(toSectionId) \o n)
           IN IF fromSectionId = toSectionId
              THEN /\ sections' = removed.arr
                   /\ timers' = debouncedSave(timers, selectedItem, removed.arr)
                   /\ Collect(removed.sh, Renumber(noteHeap, updatedNotes))
              ELSE /\ sections' = added.arr
                   /\ timers' = debouncedSave(timers, selectedItem, added.arr)
                   /\ Collect(added.sh,
                              Extend(Renumber(noteHeap, updatedNotes), n, <<updatedNote>>))
  /\ activeSectionId' = toSectionId
  /\ UNCHANGED <<activeNoteId, editingNoteId, editingNoteBody, currentView, nextId>>

\* app.jsx 363-401, with the confirmation given
deleteSection(sectionId) ==
  /\ ListShown /\ isEditor
  /\ ~(~isEditor \/ selectedItem = Null)
  /\ FindFrom(Ids(sections, secHeap), sectionId, 1) # 0
  /\ EditFrame
  /\ LET updatedSections == RemoveAt(sections, FindFrom(Ids(sections, secHeap), sectionId, 1))
     IN /\ sections' = updatedSections
        /\ timers' = debouncedSave(timers, selectedItem, updatedSections)
        /\ Collect(Renumber(secHeap, updatedSections), noteHeap)
  /\ IF activeSectionId = sectionId
     THEN activeSectionId' = NoId /\ activeNoteId' = NoId /\ editingNoteId' = NoId
     ELSE UNCHANGED <<activeSectionId, activeNoteId, editingNoteId>>
  /\ UNCHANGED <<editingNoteBody, currentView, nextId>>


\* ------------------------------------------------------------------- save
\* a saveMetadata without the comparison of editingItemIdRef.current
MaySaveUnguarded(t) == ~(t.item = Null \/ ~t.isEd)

\* app.jsx 193-204: what lets a save through
MaySave(t) ==
  /\ ~(t.item = Null \/ ~t.isEd)
  /\ ~(editingItemIdRef # t.item)

\* app.jsx 69-79 and 191-234: a timer of debouncedSave fires and
\* saveMetadata(item, sectionsToSave) runs up to its getMetadata call
saveMetadata(i) ==
  /\ i \in 1..Len(timers) /\ timers[i].kind = "save"
  /\ CanFire(timers, i)
  /\ timers' = RemoveAt(timers, i)
  /\ LET t == timers[i]
         sizeCheck == checkPayloadSize(Serialize(t.arr, secHeap, noteHeap))
     IN IF ~MaySave(t)
        THEN /\ seen' = seen \cup {"prevented"}
             /\ UNCHANGED <<isSaving, error, tasks>>
        ELSE IF ~sizeCheck.isValid
        THEN /\ error' = TooLarge(sizeCheck)
             /\ isSaving' = FALSE
             /\ UNCHANGED <<tasks, seen>>
        ELSE /\ isSaving' = TRUE
             /\ error' = NoError
             /\ tasks' = tasks (+) One(SaveTask("saveGet", t, NoPayload))
             /\ UNCHANGED seen
  /\ UNCHANGED <<sections, metadataCacheRef>>
  /\ Collect(secHeap, noteHeap)
  /\ UNCHANGED <<hostVars, selVars, noteVars, isLoading, isDirty, ctrVars,
                 isEditor, currentUserId, editingItemIdRef,
                 listeners, sectionsSrc, cacheSrc, handled, known>>
  /\ UNCHANGED indVars

\* app.jsx 231-244: the getMetadata of saveMetadata resolves (a failure
\* leaves {}), the namespace object is merged and setMetadata is called with
\* what the sections hold now
SaveGetResolved(t, ok) ==
  /\ t \in BagToSet(tasks) /\ t.kind = "saveGet"
  /\ Outcome(ok)
  /\ inputs' = Count(ok)
  /\ LET existingMetadata == IF ok THEN store[t.item] ELSE NoPayload
         metadata == Annotate(Serialize(t.arr, secHeap, noteHeap), t.uid, t.src)
         updatedMetadata == [existingMetadata EXCEPT !.annotate = metadata]
     IN tasks' = Resume(tasks, t, SaveTask("saveSet", t, updatedMetadata))
  /\ UNCHANGED <<hostVars, selVars, noteVars, flagVars, heapVars, nextId,
                 sections, isEditor, currentUserId, metadataCacheRef, editingItemIdRef,
                 listeners, timers, sectionsSrc, cacheSrc, handled, known, seen>>
  /\ UNCHANGED indVars

\* a save that takes the unsaved flag down whatever its outcome
DirtyAfterSaveCleared(ok) == FALSE

\* app.jsx 250 and 255-258: setIsDirty(false) is behind the await of
\* setMetadata, the catch does not touch the flag
DirtyAfterSave(ok) == IF ok THEN FALSE ELSE isDirty

\* app.jsx 244-261: setMetadata resolves
SaveSetResolved(t, ok) ==
  /\ t \in BagToSet(tasks) /\ t.kind = "saveSet"
  /\ Outcome(ok)
  /\ inputs' = Count(ok)
  /\ tasks' = tasks (-) One(t)
  /\ isSaving' = FALSE
  /\ isDirty' = DirtyAfterSave(ok)
  /\ IF ok
        THEN /\ store' = [store EXCEPT ![t.item] = t.payload]
             /\ metadataCacheRef' = Put(metadataCacheRef, t.item, t.arr)
             /\ cacheSrc' = Put(cacheSrc, t.item, t.src)
             /\ known' = known \cup {t.item}
             /\ UNCHANGED error
        ELSE /\ error' = SaveFailed
             /\ UNCHANGED <<store, metadataCacheRef, cacheSrc, known>>
  /\ UNCHANGED <<sections, timers>>
  /\ Collect(secHeap, noteHeap)
  /\ UNCHANGED <<hostSelection, selVars, noteVars, isLoading, nextId,
                 isEditor, currentUserId, editingItemIdRef,
                 listeners, sectionsSrc, handled, seen>>
  /\ UNCHANGED indVars

\* -------------------------------------------------------------- indicator
panelVars == <<hostSelection, selVars, noteVars, flagVars, heapVars, nextId,
               sections, isEditor, currentUserId, metadataCacheRef, editingItemIdRef,
               listeners, timers, tasks, sectionsSrc, cacheSrc, handled, known>>

\* what miro.board.getUserInfo() does: it resolves with the id of the user,
\* resolves with no id, or rejects
UserLookups == {"id", "noid", "fail"}

\* a role check that lets everyone through whose lookup resolved
indicatorIsEditorOpen(item, lookup) == item # Null /\ lookup # "fail"

\* part_000 5-20: isEditor(item), as the truth value its callers test
indicatorIsEditor(item, lookup) ==
  IF item = Null THEN FALSE
  ELSE IF lookup = "fail" THEN FALSE
  ELSE LET userId == IF lookup = "id" THEN HostUserId ELSE Null
       IN userId # Null /\ createdBy[item] = userId

\* the notes argument of syncIndicator: absent, empty, blank or a text
Contents == {Null, "", "  ", "text"}

\* notes && notes.length > 0: blanks count as content
hasNotesUntrimmed(notes) == notes # Null /\ notes # ""

\* part_000 147: notes && notes.trim().length > 0
hasNotes(notes) == notes # Null /\ notes \notin {"", "  "}

\* what miro.board.getById(id) does: it resolves with the widget, resolves
\* with nothing, or rejects
Lookups == {"widget", "nothing", "throws"}

\* an invocation of a function of the module, suspended at an await: how it
\* was called (via: by its name or through the throttle), the
\* item object it was given (its id and its bounds), the metadata it has
\* read, the metadata it is writing and the widget it holds
Call(op, item, via, content) ==
  [op |-> op, item |-> item, box |-> bounds[item], via |-> via, content |-> content,
   pc |-> "user", metadata |-> NoPayload, payload |-> NoPayload, widget |-> Null]

\* the invocation goes on as each element of next (none: it has returned)
Proceed(c, next) == (calls (-) One(c)) (+) SetToBag(next)

At(c, pc) == [c EXCEPT !.pc = pc]

\* delete updatedMetadata.indicatorWidgetId, then setMetadata
Clearing(c) ==
  [c EXCEPT !.pc = "set", !.payload = [c.metadata EXCEPT !.indicatorWidgetId = Null]]

\* part_000 53-59: the position is calculated and createText is called;
\* without bounds createIndicator returns
Creating(c) ==
  IF calculateIndicatorPosition(c.box) = <<>> THEN {} ELSE {At(c, "create")}

\* a call of one of the four exported functions, up to the getUserInfo of
\* its isEditor(item); without an item isEditor returns at once
Invoke(op, item, content) ==
  /\ inputs < MaxInputs
  /\ inputs' = inputs + 1
  /\ calls' = IF item = Null THEN calls
              ELSE calls (+) One(Call(op, item, "call", content))
  /\ UNCHANGED <<store, widgets, bounds, inThrottle, nextWidget, panelVars, seen>>

\* part_000 35-36
createIndicator(item) == Invoke("create", item, Null)

\* part_000 84-85
updateIndicatorPosition(item) == Invoke("update", item, Null)

\* part_000 116-117
deleteIndicator(item) == Invoke("delete", item, Null)

\* part_000 142-143
syncIndicator(item, notes) == Invoke("sync", item, notes)

\* a throttle whose window never opens
unthrottledUpdateIndicatorPosition(item) ==
  /\ inputs < MaxInputs
  /\ inputs' = inputs + 1
  /\ calls' = IF item = Null THEN calls
              ELSE calls (+) One(Call("update", item, "throttle", Null))
  /\ UNCHANGED <<store, widgets, bounds, inThrottle, nextWidget, panelVars, seen>>

\* part_000 156-170: the function that throttle returns; "throttled" records
\* that a call was dropped
throttledUpdateIndicatorPosition(item) ==
  /\ inputs < MaxInputs
  /\ inputs' = inputs + 1
  /\ IF ~inThrottle
     THEN /\ calls' = IF item = Null THEN calls
                      ELSE calls (+) One(Call("update", item, "throttle", Null))
          /\ inThrottle' = TRUE
          /\ UNCHANGED seen
     ELSE /\ seen' = seen \cup {"throttled"}
          /\ UNCHANGED <<calls, inThrottle>>
  /\ UNCHANGED <<store, widgets, bounds, nextWidget, panelVars>>

\* part_000 162: the timer of throttle expires, THROTTLE_MS after it was set
ThrottleExpired ==
  /\ inThrottle
  /\ inThrottle' = FALSE
  /\ UNCHANGED <<store, widgets, bounds, calls, nextWidget, inputs, panelVars, seen>>

\* a gate that every invocation gets through
UserInfoDoneUngated(c, lookup) ==
  /\ c \in BagToSet(calls) /\ c.pc = "user"
  /\ lookup \in UserLookups
  /\ Outcome(lookup = "id")
  /\ inputs' = Count(lookup = "id")
  /\ calls' = IF c.op = "sync"
              THEN Proceed(c, {[c EXCEPT !.op = IF hasNotes(c.content) THEN "create"
                                                ELSE "delete"]})
              ELSE Proceed(c, {At(c, "get")})
  /\ seen' = IF indicatorIsEditor(c.item, lookup) THEN seen ELSE seen \cup {"refused"}
  /\ UNCHANGED <<store, widgets, bounds, inThrottle, nextWidget, panelVars>>

\* part_000 11-19 with 36-41, 85-90, 117-122, 143-152: getUserInfo resolves;
\* an editor goes on to getMetadata, or from syncIndicator into the function
\* it calls, which checks again; "refused" records that the gate was shut
UserInfoDone(c, lookup) ==
  /\ c \in BagToSet(calls) /\ c.pc = "user"
  /\ lookup \in UserLookups
  /\ Outcome(lookup = "id")
  /\ inputs' = Count(lookup = "id")
  /\ calls' = IF ~indicatorIsEditor(c.item, lookup) THEN Proceed(c, {})
              ELSE IF c.op = "sync"
              THEN Proceed(c, {[c EXCEPT !.op = IF hasNotes(c.content) THEN "create"
                                                ELSE "delete"]})
              ELSE Proceed(c, {At(c, "get")})
  /\ seen' = IF indicatorIsEditor(c.item, lookup) THEN seen ELSE seen \cup {"refused"}
  /\ UNCHANGED <<store, widgets, bounds, inThrottle, nextWidget, panelVars>>

\* part_000 41-57, 90-93, 122-125: getMetadata resolves
GetMetadataDone(c, ok) ==
  /\ c \in BagToSet(calls) /\ c.pc = "get"
  /\ Outcome(ok)
  /\ inputs' = Count(ok)
  /\ LET metadata == store[c.item]
         read == [c EXCEPT !.metadata = metadata, !.widget = metadata.indicatorWidgetId]
     IN calls' = IF ~ok THEN Proceed(c, {})
                 ELSE IF metadata.indicatorWidgetId # Null THEN Proceed(c, {At(read, "lookup")})
                 ELSE IF c.op = "create" THEN Proceed(c, Creating(read))
                 ELSE Proceed(c, {})
  /\ UNCHANGED <<store, widgets, bounds, inThrottle, nextWidget, panelVars, seen>>

\* part_000 43-51, 95-110, 127-136: getById resolves.  It resolves with the
\* widget only if the widget is on the canvas; for a widget that is gone it
\* rejects or resolves with nothing
GetByIdDone(c, lookup) ==
  /\ c \in BagToSet(calls) /\ c.pc = "lookup"
  /\ lookup \in Lookups
  /\ (lookup = "widget") => c.widget \in DOMAIN widgets
  /\ LET fault == c.widget \in DOMAIN widgets /\ lookup # "widget"
     IN /\ Outcome(~fault)
        /\ inputs' = Count(~fault)
  /\ calls' =
       IF c.op = "create"
       THEN IF lookup = "widget" THEN Proceed(c, {}) ELSE Proceed(c, Creating(c))
       ELSE IF c.op = "update"
       THEN IF lookup = "throws" THEN Proceed(c, {Clearing(c)})
            ELSE IF calculateIndicatorPosition(c.box) = <<>> THEN Proceed(c, {})
            ELSE IF lookup = "nothing" THEN Proceed(c, {})
            ELSE Proceed(c, {At(c, "move")})
       ELSE IF lookup = "widget" THEN Proceed(c, {At(c, "remove")})
            ELSE Proceed(c, {Clearing(c)})
  /\ UNCHANGED <<store, widgets, bounds, inThrottle, nextWidget, panelVars, seen>>

\* a createIndicator that records the id of its widget and nothing else
RecordingOnlyId(c, id) ==
  [c EXCEPT !.pc = "set", !.widget = id,
            !.payload = [NoPayload EXCEPT !.indicatorWidgetId = id]]

\* part_000 72-75: setMetadata({...metadata, indicatorWidgetId: id})
Recording(c, id) ==
  [c EXCEPT !.pc = "set", !.widget = id,
            !.payload = [c.metadata EXCEPT !.indicatorWidgetId = id]]

\* part_000 59-75: createText resolves with a new widget and setMetadata is
\* called with the metadata read before and the id of the widget
CreateTextDone(c, ok) ==
  /\ c \in BagToSet(calls) /\ c.pc = "create"
  /\ nextWidget < Len(WidgetIds)
  /\ Outcome(ok)
  /\ inputs' = Count(ok)
  /\ LET id == WidgetIds[nextWidget + 1]
     IN IF ok
        THEN /\ widgets' = Put(widgets, id, Marker(c.item, calculateIndicatorPosition(c.box)))
             /\ nextWidget' = nextWidget + 1
             /\ calls' = Proceed(c, {Recording(c, id)})
        ELSE /\ calls' = Proceed(c, {})
             /\ UNCHANGED <<widgets, nextWidget>>
  /\ UNCHANGED <<store, bounds, inThrottle, panelVars, seen>>

\* part_000 131-136: remove resolves, or rejects into the empty catch, and
\* setMetadata is called without the id
RemoveDone(c, ok) ==
  /\ c \in BagToSet(calls) /\ c.pc = "remove"
  /\ Outcome(ok)
  /\ inputs' = Count(ok)
  /\ widgets' = IF ok THEN Restrict(widgets, DOMAIN widgets \ {c.widget}) ELSE widgets
  /\ calls' = Proceed(c, {Clearing(c)})
  /\ UNCHANGED <<store, bounds, inThrottle, nextWidget, panelVars, seen>>

\* part_000 110-113: indicatorWidget.set resolves
SetPositionDone(c, ok) ==
  /\ c \in BagToSet(calls) /\ c.pc = "move"
  /\ Outcome(ok)
  /\ inputs' = Count(ok)
  /\ widgets' = IF ok /\ c.widget \in DOMAIN widgets
                THEN [widgets EXCEPT ![c.widget].position = calculateIndicatorPosition(c.box)]
                ELSE widgets
  /\ calls' = Proceed(c, {})
  /\ UNCHANGED <<store, bounds, inThrottle, nextWidget, panelVars, seen>>

\* part_000 72-81, 101-102, 136-139: setMetadata resolves
SetMetadataDone(c, ok) ==
  /\ c \in BagToSet(calls) /\ c.pc = "set"
  /\ Outcome(ok)
  /\ inputs' = Count(ok)
  /\ store' = IF ok THEN [store EXCEPT ![c.item] = c.payload] ELSE store
  /\ calls' = Proceed(c, {})
  /\ UNCHANGED <<widgets, bounds, inThrottle, nextWidget, panelVars, seen>>

\* ------------------------------------------------------------------- spec
Next ==
  \/ \E t \in BagToSet(tasks), ok \in BOOLEAN : InitAppDone(t, ok)
  \/ \E t \in BagToSet(tasks), ok \in BOOLEAN : GetSelectionDone(t, ok)
  \/ \E items \in Selections : SelectionEvent(items)
  \/ \E i \in 1..Len(timers) : handleSelectionUpdate(i)
  \/ \E t \in BagToSet(tasks), ok \in BOOLEAN : RoleResolved(t, ok)
  \/ \E t \in BagToSet(tasks), ok \in BOOLEAN : LoadResolved(t, ok)
  \/ addSection
  \/ \E a \in Range(sections), d \in {"up", "down"} : moveSection(secHeap[a].id, d)
  \/ \E a \in Range(sections) : \E n \in Range(secHeap[a].notes) :
       selectNote(noteHeap[n].id, secHeap[a].id)
  \/ goBackToList
  \/ \E value \in Bodies : handleNoteBodyChange(value)
  \/ \E i \in 1..Len(timers) : saveMetadata(i)
  \/ \E t \in BagToSet(tasks), ok \in BOOLEAN : SaveGetResolved(t, ok)
  \/ \E t \in BagToSet(tasks), ok \in BOOLEAN : SaveSetResolved(t, ok)

Spec == Init /\ [][Next]_vars

SpecCorrupt == InitCorrupt /\ [][Next]_vars

\* ------------------------------------------------- the edits of the notes
\* a record as saveMetadata writes it: two sections, counts[i] notes in
\* section i, every note with the id of its section and its index as order
Stored(counts) ==
  [i \in 1..Len(counts) |->
     [id |-> i, name |-> IF i = 1 THEN "General" ELSE "Ideas", order |-> i - 1,
      notes |-> [j \in 1..counts[i] |->
                   createNote(10 * i + j, "A", i, 2, "u1", j - 1)]]]

NoteCounts == [1..2 -> 0..MaxNotes]

\* the panel after its start-up on a board where A, which holds record, is
\* selected: initApp, the role check and the load of A have resolved
Loaded(record) ==
  LET m == Materialize(sortLoaded(record), 1, [arr |-> <<>>, sh |-> <<>>, nh |-> <<>>])
  IN /\ store = [i \in Items |->
                  IF i = "A" THEN Namespace(Annotate(record, "u1", "A"), "w1")
                  ELSE Namespace(NoAnnotate, Null)]
     /\ hostSelection = <<"A">>
     /\ selectedItem = "A" /\ selectedItemId = "A" /\ selectionCount = 1
     /\ sections = m.arr /\ sectionsSrc = "A"
     /\ activeNoteId = NoId /\ activeSectionId = NoId
     /\ editingNoteId = NoId /\ editingNoteBody = 0
     /\ isEditor = checkIsEditor("A", TRUE) /\ currentUserId = HostUserId
     /\ isDirty = FALSE /\ isLoading = FALSE /\ isSaving = FALSE
     /\ error = NoError /\ currentView = "list"
     /\ metadataCacheRef = Put(<<>>, "A", m.arr) /\ cacheSrc = Put(<<>>, "A", "A")
     /\ editingItemIdRef = "A"
     /\ secHeap = m.sh /\ noteHeap = m.nh
     /\ listeners = 2
     /\ timers = <<>>
     /\ tasks = EmptyBag
     /\ nextId = 40
     /\ Canvas(BoxOf)
     /\ inputs = 0
     /\ handled = [e \in 1..MaxInputs |-> 0]
     /\ known = {"A"}
     /\ seen = {}

InitNotes == \E counts \in NoteCounts : Loaded(Stored(counts))

\* the owner of A works on its notes and sections and the selection stays on
\* A; the saves that the edits arm stay pending (what a save does is in Next
\* and reads the sections only)
NextNotes ==
  \/ \E a \in Range(sections) : createNoteInSection(secHeap[a].id)
  \/ \E a \in Range(sections) : \E n \in Range(secHeap[a].notes) :
       selectNote(noteHeap[n].id, secHeap[a].id)
  \/ goBackToList
  \/ \E value \in Bodies : handleNoteBodyChange(value)
  \/ \E a \in Range(sections) : \E n \in Range(secHeap[a].notes) :
       deleteNote(noteHeap[n].id, secHeap[a].id)
  \/ \E a \in Range(sections) : \E n \in Range(secHeap[a].notes), d \in {"up", "down"} :
       moveNote(noteHeap[n].id, secHeap[a].id, d)
  \/ \E a \in Range(sections), b \in Range(sections) : \E n \in Range(secHeap[a].notes) :
       moveNoteToSection(noteHeap[n].id, secHeap[a].id, secHeap[b].id)
  \/ \E a \in Range(sections) : deleteSection(secHeap[a].id)

SpecNotes == InitNotes /\ [][NextNotes]_vars

\* ------------------------------------------------------------ the new note
\* the records A may hold: no section at all, the section Ideas alone, Ideas
\* before General, and General before Ideas
Records ==
  {<<>>}
    \cup {<<[Stored(counts)[2] EXCEPT !.order = 0]>> : counts \in NoteCounts}
    \cup {<<[Stored(counts)[2] EXCEPT !.order = 0], [Stored(counts)[1] EXCEPT !.order = 1]>> :
            counts \in NoteCounts}
    \cup {Stored(counts) : counts \in NoteCounts}

InitNewNote == \E record \in Records : Loaded(record)

\* the owner of A uses the New Note button, goes back to the list, opens
\* notes and deletes sections
NextNewNote ==
  \/ createNewNote
  \/ goBackToList
  \/ \E a \in Range(sections) : \E n \in Range(secHeap[a].notes) :
       selectNote(noteHeap[n].id, secHeap[a].id)
  \/ \E a \in Range(sections) : deleteSection(secHeap[a].id)

SpecNewNote == InitNewNote /\ [][NextNewNote]_vars

\* ------------------------------------------------ the indicator functions
\* the state of the panel while it has not been opened
PanelClosed ==
  /\ hostSelection = <<>>
  /\ selectedItem = Null /\ selectedItemId = Null /\ selectionCount = 0
  /\ sections = <<>> /\ sectionsSrc = Null
  /\ activeNoteId = NoId /\ activeSectionId = NoId
  /\ editingNoteId = NoId /\ editingNoteBody = 0
  /\ isEditor = FALSE /\ currentUserId = Null
  /\ isDirty = FALSE /\ isLoading = FALSE /\ isSaving = FALSE
  /\ error = NoError /\ currentView = "list"
  /\ metadataCacheRef = <<>> /\ cacheSrc = <<>>
  /\ editingItemIdRef = Null
  /\ secHeap = <<>> /\ noteHeap = <<>>
  /\ listeners = 0
  /\ timers = <<>>
  /\ tasks = EmptyBag
  /\ nextId = 4
  /\ inputs = 0
  /\ handled = [e \in 1..MaxInputs |-> 0]
  /\ known = {}
  /\ seen = {}

\* what the record of A says of its marker and what is on the canvas: no
\* marker, the marker w1, or the id of a marker w1 that is gone
Markers == {"none", "live", "stale"}

\* a board on which A (of the user) and B (of somebody else) hold records; B
\* has its marker w2; A has the bounds its marker was placed for, has been
\* moved since, or has no bounds
InitIndicator ==
  \E marker \in Markers, box \in {BoxOf["A"], MovedBox, NoBox} :
    /\ PanelClosed
    /\ store = [i \in Items |->
                 IF i = "A"
                 THEN Namespace(Annotate(StoredA, "u1", "A"),
                                IF marker = "none" THEN Null ELSE WidgetIds[1])
                 ELSE Namespace(Annotate(StoredA, "u2", "B"), WidgetIds[2])]
    /\ widgets = [w \in (IF marker = "live" THEN {WidgetIds[1]} ELSE {}) \cup {WidgetIds[2]} |->
                   IF w = WidgetIds[1] THEN Marker("A", calculateIndicatorPosition(BoxOf["A"]))
                   ELSE Marker("B", calculateIndicatorPosition(BoxOf["B"]))]
    /\ bounds = [BoxOf EXCEPT !["A"] = box]
    /\ calls = EmptyBag
    /\ inThrottle = FALSE
    /\ nextWidget = 2

NextIndicator ==
  \/ \E item \in Items \cup {Null} : createIndicator(item)
  \/ \E item \in Items \cup {Null} : updateIndicatorPosition(item)
  \/ \E item \in Items \cup {Null} : deleteIndicator(item)
  \/ \E item \in Items \cup {Null}, notes \in Contents : syncIndicator(item, notes)
  \/ \E item \in Items \cup {Null} : throttledUpdateIndicatorPosition(item)
  \/ ThrottleExpired
  \/ \E c \in BagToSet(calls), lookup \in UserLookups : UserInfoDone(c, lookup)
  \/ \E c \in BagToSet(calls), ok \in BOOLEAN : GetMetadataDone(c, ok)
  \/ \E c \in BagToSet(calls), lookup \in Lookups : GetByIdDone(c, lookup)
  \/ \E c \in BagToSet(calls), ok \in BOOLEAN : CreateTextDone(c, ok)
  \/ \E c \in BagToSet(calls), ok \in BOOLEAN : RemoveDone(c, ok)
  \/ \E c \in BagToSet(calls), ok \in BOOLEAN : SetPositionDone(c, ok)
  \/ \E c \in BagToSet(calls), ok \in BOOLEAN : SetMetadataDone(c, ok)

SpecIndicator == InitIndicator /\ [][NextIndicator]_vars

\* createIndicator, deleteIndicator and syncIndicator alone: the marker of an
\* object is created, recorded, removed and cleared, and never moved
NextMarkers ==
  \/ \E item \in Items \cup {Null} : createIndicator(item)
  \/ \E item \in Items \cup {Null} : deleteIndicator(item)
  \/ \E item \in Items \cup {Null}, notes \in Contents : syncIndicator(item, notes)
  \/ \E c \in BagToSet(calls), lookup \in UserLookups : UserInfoDone(c, lookup)
  \/ \E c \in BagToSet(calls), ok \in BOOLEAN : GetMetadataDone(c, ok)
  \/ \E c \in BagToSet(calls), lookup \in Lookups : GetByIdDone(c, lookup)
  \/ \E c \in BagToSet(calls), ok \in BOOLEAN : CreateTextDone(c, ok)
  \/ \E c \in BagToSet(calls), ok \in BOOLEAN : RemoveDone(c, ok)
  \/ \E c \in BagToSet(calls), ok \in BOOLEAN : SetMetadataDone(c, ok)

SpecMarkers == InitIndicator /\ [][NextMarkers]_vars

\* ------------------------------------------------- an object is dragged
\* the boxes an item is dragged through
Boxes == {BoxOf["A"], BoxOf["B"], MovedBox, <<90, 60, 100, 40>>}

\* a board on which A and B have their markers where their bounds put them
InitGeometry ==
  /\ PanelClosed
  /\ store = [i \in Items |->
               IF i = "A" THEN Namespace(Annotate(StoredA, "u1", "A"), WidgetIds[1])
               ELSE Namespace(Annotate(StoredA, "u2", "B"), WidgetIds[2])]
  /\ widgets = [w \in {WidgetIds[1], WidgetIds[2]} |->
                 IF w = WidgetIds[1] THEN Marker("A", calculateIndicatorPosition(BoxOf["A"]))
                 ELSE Marker("B", calculateIndicatorPosition(BoxOf["B"]))]
  /\ bounds = BoxOf
  /\ calls = EmptyBag
  /\ inThrottle = FALSE
  /\ nextWidget = 2

\* the item has been moved or resized to box, and
\* throttledUpdateIndicatorPosition (part_000 156-170) is called with the
\* item as it is now
GeometryChanged(item, box) ==
  /\ inputs < MaxInputs
  /\ inputs' = inputs + 1
  /\ box # bounds[item]
  /\ bounds' = [bounds EXCEPT ![item] = box]
  /\ IF ~inThrottle
     THEN /\ calls' = calls (+) One([Call("update", item, "throttle", Null)
                                       EXCEPT !.box = box])
          /\ inThrottle' = TRUE
          /\ UNCHANGED seen
     ELSE /\ seen' = seen \cup {"throttled"}
          /\ UNCHANGED <<calls, inThrottle>>
  /\ UNCHANGED <<store, widgets, nextWidget, panelVars>>

\* what happens without the user: the timer of the throttle expires and the
\* host answers, every call succeeding
GeometryReplies ==
  \/ ThrottleExpired
  \/ \E c \in BagToSet(calls) : UserInfoDone(c, "id")
  \/ \E c \in BagToSet(calls) : GetMetadataDone(c, TRUE)
  \/ \E c \in BagToSet(calls) : GetByIdDone(c, "widget")
  \/ \E c \in BagToSet(calls) : SetPositionDone(c, TRUE)

NextGeometry ==
  \/ \E item \in Items, box \in Boxes : GeometryChanged(item, box)
  \/ GeometryReplies

\* a timer that is armed expires and a host call that was issued is answered
SpecGeometry == InitGeometry /\ [][NextGeometry]_vars /\ WF_vars(GeometryReplies)

\* ------------------------------------------- edits while every call succeeds
\* the owner of A edits, the selection stays on A, the timers of the saves
\* fire and every host call of a save succeeds
NextSteady ==
  \/ addSection
  \/ \E a \in Range(sections), d \in {"up", "down"} : moveSection(secHeap[a].id, d)
  \/ \E a \in Range(sections) : \E n \in Range(secHeap[a].notes) :
       selectNote(noteHeap[n].id, secHeap[a].id)
  \/ goBackToList
  \/ \E value \in Bodies : handleNoteBodyChange(value)
  \/ \E i \in 1..Len(timers) : saveMetadata(i)
  \/ \E t \in BagToSet(tasks) : SaveGetResolved(t, TRUE)
  \/ \E t \in BagToSet(tasks) : SaveSetResolved(t, TRUE)

SpecSteady == InitNotes /\ [][NextSteady]_vars

\* ------------------------------------- the panel and the indicator functions
\* the owner of A adds sections, the saves run, and createIndicator and
\* deleteIndicator are called for A meanwhile; the calls of the two sides on
\* the record of A resolve in any order, and they succeed, except that the
\* lookup of the marker may fail
NextOverlap ==
  \/ addSection
  \/ \E i \in 1..Len(timers) : saveMetadata(i)
  \/ \E t \in BagToSet(tasks) : SaveGetResolved(t, TRUE)
  \/ \E t \in BagToSet(tasks) : SaveSetResolved(t, TRUE)
  \/ createIndicator("A")
  \/ deleteIndicator("A")
  \/ \E c \in BagToSet(calls) : UserInfoDone(c, "id")
  \/ \E c \in BagToSet(calls) : GetMetadataDone(c, TRUE)
  \/ \E c \in BagToSet(calls), lookup \in Lookups : GetByIdDone(c, lookup)
  \/ \E c \in BagToSet(calls) : CreateTextDone(c, TRUE)
  \/ \E c \in BagToSet(calls) : RemoveDone(c, TRUE)
  \/ \E c \in BagToSet(calls) : SetMetadataDone(c, TRUE)

SpecOverlap == InitNotes /\ [][NextOverlap]_vars

\* ----------------------------------------------------------------- claims
\* what the host would get from an array of section objects now
View(arr) == Serialize(arr, secHeap, noteHeap)

CacheView == [k \in DOMAIN metadataCacheRef |-> View(metadataCacheRef[k])]

\* the getMetadata calls of loadMetadata(x) that are in flight
LoadCalls(x) == CopiesIn(Task("load", x, 0), tasks)

\* C1: every setMetadata that saveMetadata issues on an object carries
\* sections that descend from the sections loaded for that same object
C1_WritesCarryOwnSections ==
  \A t \in BagToSet(tasks) : t.kind = "saveSet" => t.src = t.item

\* C2: once the selection has moved from A to another object while a save of
\* A was waiting for its 400 ms, no setMetadata on A comes out of that save
C2_MovedAwaySaveIsDropped ==
  \A t \in BagToSet(tasks) : t.kind = "saveSet" => ~t.moved

\* C3: a debounced save that fires when editingItemIdRef.current is not the
\* id it captured calls neither getMetadata nor setMetadata and leaves the
\* store of every object, the cache and the sections state as they were
C3_StaleSaveChangesNothing ==
  [][\A i \in 1..Len(timers) :
       (saveMetadata(i) /\ editingItemIdRef # timers[i].item)
         => /\ tasks' = tasks
            /\ store' = store
            /\ metadataCacheRef' = metadataCacheRef
            /\ CacheView' = CacheView
            /\ sections' = sections
            /\ View(sections)' = View(sections)]_vars

C3_StaleSaveDropped ==
  /\ "prevented" \in seen
  /\ \A t \in BagToSet(tasks) : t.kind \notin {"saveGet", "saveSet"}

\* C4: edits that follow one another within the 400 ms window collapse: each
\* new call cancels the pending timer, so one object never has two saves
\* waiting and the burst ends in one setMetadata, that of the last edit
C4_OnePendingSavePerObject ==
  \A i, j \in 1..Len(timers) :
     (i < j /\ timers[i].kind = "save" /\ timers[j].kind = "save")
       => timers[i].item # timers[j].item

\* C5: saveMetadata never issues setMetadata on an object that the current
\* user did not create
C5_WritesOnlyOnOwnObjects ==
  \A t \in BagToSet(tasks) : t.kind = "saveSet" => createdBy[t.item] = HostUserId

\* C6: when a selection event that leaves the single object being edited has
\* been processed (to none, to several, or to another single object),
\* editingItemIdRef.current is no longer the id of the object left
C6_RefLeavesTheObjectLeft ==
  [][/\ \A i \in 1..Len(timers) :
          (/\ handleSelectionUpdate(i)
           /\ Len(timers[i].items) # 1
           /\ selectedItemId # Null
           /\ editingItemIdRef = selectedItemId)
            => editingItemIdRef' # selectedItemId
     /\ \A t \in BagToSet(tasks), ok \in BOOLEAN :
          (/\ RoleResolved(t, ok)
           /\ editingItemIdRef # Null
           /\ t.item # editingItemIdRef)
            => editingItemIdRef' # editingItemIdRef]_vars

\* C7: when an event with no object or with several objects has been
\* processed, selectedItem and selectedItemId are null, sections is empty,
\* activeNoteId, activeSectionId and editingNoteId are null and isDirty is
\* false, the same for several objects as for none
C7_EmptyAndMultipleClearAll ==
  [][\A i \in 1..Len(timers) :
       (handleSelectionUpdate(i) /\ Len(timers[i].items) # 1)
         => /\ selectedItem' = Null
            /\ selectedItemId' = Null
            /\ sections' = <<>>
            /\ activeNoteId' = NoId
            /\ activeSectionId' = NoId
            /\ editingNoteId' = NoId
            /\ isDirty' = FALSE]_vars

\* C8: a selection event is processed at most once, however many times the
\* effect that registers the listener has run
C8_EventProcessedOnce ==
  \A e \in DOMAIN handled : handled[e] <= 1

\* C9: once an object has been read or written with success, its entry stays
\* in the cache and a later loadMetadata of it sets the cached sections and
\* issues no getMetadata
C9_KnownObjectIsNeverFetchedAgain ==
  [][\A x \in known :
       /\ x \in DOMAIN metadataCacheRef
       /\ LoadCalls(x)' <= LoadCalls(x)
       /\ \A t \in BagToSet(tasks), ok \in BOOLEAN :
            (RoleResolved(t, ok) /\ t.item = x) => sections' = metadataCacheRef[x]]_vars

C9_KnownObjectReloaded ==
  /\ "cached" \in seen
  /\ \E x \in known : editingItemIdRef = x /\ sections = metadataCacheRef[x]

\* C10: saveMetadata replaces the cache entry of an object only when its
\* setMetadata has succeeded, and the new entry is exactly the sections that
\* were written; a save that is skipped or fails leaves the cache as it was
C10_CacheIsWhatWasWritten ==
  [][/\ \A t \in BagToSet(tasks) :
          SaveSetResolved(t, TRUE)
            => /\ t.item \in DOMAIN metadataCacheRef'
               /\ View(metadataCacheRef[t.item])' = t.payload.annotate.sections
               /\ \A x \in DOMAIN metadataCacheRef \ {t.item} : CacheView'[x] = CacheView[x]
     /\ \A t \in BagToSet(tasks) :
          (SaveSetResolved(t, FALSE) \/ SaveGetResolved(t, TRUE) \/ SaveGetResolved(t, FALSE))
            => CacheView' = CacheView
     /\ \A i \in 1..Len(timers) : saveMetadata(i) => CacheView' = CacheView]_vars

\* C11: saveMetadata rejects a record exactly when its serialized size is
\* greater than the ceiling (a record of the ceiling size goes on to the
\* host); a rejection issues no host call, leaves store, cache and sections
\* as they were, sets the error with the measured size and the ceiling, and
\* leaves the role and the selection alone, so editing goes on
C11_RejectsIffOverCeiling ==
  [][\A i \in 1..Len(timers) :
       (saveMetadata(i) /\ MaySave(timers[i]))
         => LET size == JsonSize(View(timers[i].arr))
            IN IF size > MAX_PAYLOAD_SIZE
               THEN /\ tasks' = tasks
                    /\ store' = store
                    /\ metadataCacheRef' = metadataCacheRef
                    /\ CacheView' = CacheView
                    /\ sections' = sections
                    /\ View(sections)' = View(sections)
                    /\ error' = <<"Data too large", KB(size), KB(MAX_PAYLOAD_SIZE)>>
                    /\ isSaving' = FALSE
                    /\ <<isEditor, selectedItem, editingItemIdRef, currentView>>'
                         = <<isEditor, selectedItem, editingItemIdRef, currentView>>
               ELSE tasks' = tasks (+) One(SaveTask("saveGet", timers[i], NoPayload))]_vars

C11_RejectedAndStillEditing ==
  /\ Len(error) = 3 /\ error[1] = "Data too large"
  /\ JsonSize(View(sections)) > MAX_PAYLOAD_SIZE
  /\ EditorShown /\ isEditor /\ ~isSaving
  /\ \A x \in Items : store[x].annotate.present
                        => JsonSize(store[x].annotate.sections) <= MAX_PAYLOAD_SIZE

\* C12: loading an object that has no stored record gives exactly one
\* section, named General, with order 0 and no notes; the load sets no
\* error, writes nothing to the store and issues no host call
C12_NoRecordLoadsDefault ==
  [][\A t \in BagToSet(tasks) :
       (LoadResolved(t, TRUE) /\ ~store[t.item].annotate.present)
         => /\ Len(sections') = 1
            /\ View(sections)'[1].name = "General"
            /\ View(sections)'[1].order = 0
            /\ View(sections)'[1].notes = <<>>
            /\ error' = error
            /\ store' = store
            /\ tasks' = tasks (-) One(t)]_vars

C12_DefaultLoaded ==
  /\ editingItemIdRef = "B" /\ sectionsSrc = "B" /\ "B" \in known
  /\ ~store["B"].annotate.present
  /\ Len(sections) = 1 /\ View(sections)[1].name = "General"
  /\ error = NoError /\ ~isLoading

\* C13: a stored annotate payload that is no v1 record (the legacy shape, or
\* sections that is no sequence of section records) is reported as an error
\* and the sections state is reset to the empty record
IsEmptyRecord(deep) ==
  \/ deep = <<>>
  \/ Len(deep) = 1 /\ deep[1].name = "General" /\ deep[1].order = 0 /\ deep[1].notes = <<>>

C13_CorruptIsReportedAndReset ==
  [][\A t \in BagToSet(tasks) :
       (LoadResolved(t, TRUE) /\ store[t.item].annotate.shape \in {"legacy", "malformed"})
         => /\ error' # NoError
            /\ IsEmptyRecord(View(sections))']_vars

\* C14: the namespace object that saveMetadata writes keeps every key other
\* than annotate as the store holds it: indicatorWidgetId is never dropped
C14_SaveKeepsOtherKeys ==
  \A t \in BagToSet(tasks) :
     t.kind = "saveSet" => t.payload.indicatorWidgetId = store[t.item].indicatorWidgetId

C16_FailedSelectionIsSafe ==
  [][/\ \A t \in BagToSet(tasks) :
          RoleResolved(t, FALSE) => (~isEditor' /\ error' # NoError)
     /\ \A t \in BagToSet(tasks) :
          LoadResolved(t, FALSE) => (error' # NoError /\ sectionsSrc' \in {Null, t.item})
     /\ \A i \in 1..Len(timers) :
          (saveMetadata(i) /\ timers[i].src # timers[i].item) => tasks' = tasks]_vars

\* what loadMetadata makes of a stored sections value on a cache miss:
\* sorted by order, notes sorted by order, parsed into objects
Reloaded(deep) ==
  LET m == Materialize(sortLoaded(deep), 1, [arr |-> <<>>, sh |-> <<>>, nh |-> <<>>])
  IN Serialize(m.arr, m.sh, m.nh)

\* C17: a sections value that saveMetadata writes is loaded back from the
\* host equal field for field: the same sections in the same sequence, each
\* with the same notes in the same sequence
C17_SavedValueLoadsBackEqual ==
  \A t \in BagToSet(tasks) :
     t.kind = "saveSet" => Reloaded(t.payload.annotate.sections) = t.payload.annotate.sections

\* C18: after any sequence of addSection, renameSection, deleteSection and
\* moveSection from a loaded state, the section at index i of the sections
\* array has order i
C18_OrderMatchesPosition ==
  \A i \in 1..Len(sections) : View(sections)[i].order = i - 1

\* the order field of the section with this id in a serialized array
OrderOf(deep, id) == deep[FindFrom([i \in 1..Len(deep) |-> deep[i].id], id, 1)].order

\* C20: a moveSection that has a neighbour in the direction exchanges the
\* order values of the two adjacent sections, leaves the order of every
\* other section as it was, and the orders stay 0..n-1
C20_MoveExchangesOrders ==
  [][\A a \in Range(sections), d \in {"up", "down"} :
       moveSection(secHeap[a].id, d) =>
         LET ids == Ids(sections, secHeap)
             index == FindFrom(ids, secHeap[a].id, 1)
             newIndex == IF d = "up" THEN index - 1 ELSE index + 1
             before == View(sections)
             after == View(sections)'
         IN /\ OrderOf(after, ids[index]) = OrderOf(before, ids[newIndex])
            /\ OrderOf(after, ids[newIndex]) = OrderOf(before, ids[index])
            /\ \A k \in 1..Len(ids) :
                 k \notin {index, newIndex} =>
                   OrderOf(after, ids[k]) = OrderOf(before, ids[k])
            /\ {after[k].order : k \in 1..Len(after)} = 0..(Len(after) - 1)]_vars

\* C19: after any sequence of createNoteInSection, updateNote, deleteNote,
\* moveNote, moveNoteToSection and deleteSection, the note at index j of the
\* notes of a section S has sectionId = S.id and order j
C19_NotesMatchTheirSection ==
  \A i \in 1..Len(sections) :
    \A j \in 1..Len(View(sections)[i].notes) :
      /\ View(sections)[i].notes[j].sectionId = View(sections)[i].id
      /\ View(sections)[i].notes[j].order = j - 1

\* a note that was loaded in one section has been moved to the end of
\* another, and a note that stood behind it has moved up
C19_MovedAndRenumbered ==
  /\ \E i \in 1..Len(sections) : \E j \in 1..Len(View(sections)[i].notes) :
       LET note == View(sections)[i].notes[j]
       IN /\ note.id < 40 /\ note.id \div 10 # View(sections)[i].id
          /\ note.sectionId = View(sections)[i].id
  /\ \E i \in 1..Len(sections) : \E j \in 1..Len(View(sections)[i].notes) :
       LET note == View(sections)[i].notes[j]
       IN /\ note.id < 40 /\ note.id \div 10 = View(sections)[i].id
          /\ note.id % 10 > j
          /\ note.order = j - 1

\* no save is armed and none is in flight: nothing is pending
Quiet ==
  /\ \A i \in 1..Len(timers) : timers[i].kind # "save"
  /\ \A t \in BagToSet(tasks) : t.kind \notin {"saveGet", "saveSet"}

\* C21: the owner of the selected object edits, the selection stays and every
\* host call succeeds: once no save is pending (and none was turned away for
\* its size), the value stored on the object, its cache entry and the local
\* sections agree.  A quiet state stays as it is until the next edit, so this
\* is also what the store holds eventually.
C21_QuietMeansInSync ==
  (Quiet /\ error = NoError /\ selectedItem # Null) =>
    /\ store[selectedItem].annotate.sections = View(sections)
    /\ CacheView[selectedItem] = View(sections)

\* the selection of the single object x has been processed to its end: no
\* handler run is armed and no role check or load of x is in flight
Settled(x) ==
  /\ hostSelection = <<x>> /\ selectedItem = x /\ editingItemIdRef = x
  /\ \A i \in 1..Len(timers) : timers[i].kind # "sel"
  /\ \A t \in BagToSet(tasks) : t.kind \in {"role", "load"} => t.item # x

\* C29: whatever failed or is still unanswered for another object, once the
\* selection of an object has been processed the panel is not in the loading
\* state: the sections of that object are visible
C29_LaterSelectionIsShown ==
  \A x \in Items : Settled(x) => ~isLoading

\* C22: the role check of the panel and the one of the indicator module say
\* yes only for an object that is present, a user lookup that resolved with an
\* id, and a createdBy equal to that id; in every other case they say no, and
\* an invocation of the indicator module gets past its check only then
C22_RoleCheckFailsClosed ==
  /\ \A item \in Items \cup {Null}, lookup \in UserLookups :
       indicatorIsEditor(item, lookup) <=>
         (item # Null /\ lookup = "id" /\ createdBy[item] = HostUserId)
  /\ \A item \in Items \cup {Null}, ok \in BOOLEAN :
       checkIsEditor(item, ok) <=> (item # Null /\ ok /\ createdBy[item] = HostUserId)
  /\ \A c \in BagToSet(calls) :
       c.pc # "user" => c.item # Null /\ createdBy[c.item] = HostUserId

\* an invocation for the user's own object is past its role check
C22_OwnerPassed ==
  \E c \in BagToSet(calls) : c.pc = "get" /\ createdBy[c.item] = HostUserId

\* the invocation c goes on from its await in this step
Resumed(c) == CopiesIn(c, calls') < CopiesIn(c, calls)

\* the invocation c goes on in this step and no host call fails
ResumedWell(c) == Resumed(c) /\ inputs' = inputs

\* C23: a createIndicator of the owner for an object with bounds, none of its
\* host calls failing.  With no id recorded, or an id whose widget is gone, it
\* creates exactly one marker, at the position calculated from the bounds, and
\* writes the id of that marker into the record, whose other keys keep their
\* values.  With an id that resolves to a widget it returns at once: nothing
\* is created and nothing is written.
C23_CreateIndicatorContract ==
  [][\A c \in BagToSet(calls) :
       (c.op = "create" /\ c.box # NoBox /\ ResumedWell(c)) =>
         LET recorded == store[c.item].indicatorWidgetId
             created == DOMAIN widgets' \ DOMAIN widgets
         IN CASE c.pc = "get" ->
                   /\ UNCHANGED <<store, widgets>>
                   /\ recorded = Null =>
                        \E d \in BagToSet(calls') : d.pc = "create" /\ d.metadata = store[c.item]
              [] c.pc = "lookup" ->
                   /\ UNCHANGED <<store, widgets>>
                   /\ IF c.widget \in DOMAIN widgets
                      THEN calls' = calls (-) One(c)
                      ELSE calls' = (calls (-) One(c)) (+) One([c EXCEPT !.pc = "create"])
              [] c.pc = "create" ->
                   /\ UNCHANGED store
                   /\ Cardinality(created) = 1
                   /\ \A w \in DOMAIN widgets : widgets'[w] = widgets[w]
                   /\ \A w \in created :
                        /\ widgets'[w] = [item |-> c.item,
                                          position |-> calculateIndicatorPosition(c.box)]
                        /\ \E d \in BagToSet(calls') :
                             /\ d.pc = "set" /\ d.widget = w
                             /\ d.payload = [annotate |-> c.metadata.annotate,
                                             indicatorWidgetId |-> w]
              [] c.pc = "set" ->
                   /\ UNCHANGED widgets
                   /\ store' = [store EXCEPT ![c.item].indicatorWidgetId = c.widget]
                   /\ calls' = calls (-) One(c)
              [] OTHER -> TRUE]_vars

\* createIndicator has replaced the id of a marker that was gone by the id of
\* the marker it created
C23_StaleIdReplaced ==
  /\ calls = EmptyBag
  /\ WidgetIds[1] \notin DOMAIN widgets
  /\ store["A"].indicatorWidgetId = WidgetIds[3]
  /\ WidgetIds[3] \in DOMAIN widgets
  /\ widgets[WidgetIds[3]].item = "A"

\* C24: for an object of the user, syncIndicator with content that is empty
\* after trimming runs deleteIndicator (with content that is not, it runs
\* createIndicator), and a deleteIndicator whose host calls succeed looks up the
\* recorded marker, removes it from the canvas and writes the record back
\* without indicatorWidgetId, its other keys unchanged
C24_SyncEmptyRemovesMarker ==
  [][\A c \in BagToSet(calls) :
       (createdBy[c.item] = HostUserId /\ ResumedWell(c)) =>
         LET next(d) == calls' = (calls (-) One(c)) (+) One(d)
             cleared == [annotate |-> c.metadata.annotate, indicatorWidgetId |-> Null]
         IN CASE c.op = "sync" ->
                   /\ UNCHANGED <<store, widgets>>
                   /\ next([c EXCEPT !.op = IF c.content = "text" THEN "create" ELSE "delete"])
              [] c.op = "delete" /\ c.pc = "get" ->
                   /\ UNCHANGED <<store, widgets>>
                   /\ IF store[c.item].indicatorWidgetId = Null
                      THEN calls' = calls (-) One(c)
                      ELSE next([c EXCEPT !.pc = "lookup", !.metadata = store[c.item],
                                          !.widget = store[c.item].indicatorWidgetId])
              [] c.op = "delete" /\ c.pc = "lookup" ->
                   /\ UNCHANGED <<store, widgets>>
                   /\ IF c.widget \in DOMAIN widgets
                      THEN next([c EXCEPT !.pc = "remove"])
                      ELSE next([c EXCEPT !.pc = "set", !.payload = cleared])
              [] c.op = "delete" /\ c.pc = "remove" ->
                   /\ UNCHANGED store
                   /\ DOMAIN widgets' = DOMAIN widgets \ {c.widget}
                   /\ \A w \in DOMAIN widgets' : widgets'[w] = widgets[w]
                   /\ next([c EXCEPT !.pc = "set", !.payload = cleared])
              [] c.op = "delete" /\ c.pc = "set" ->
                   /\ UNCHANGED widgets
                   /\ store' = [store EXCEPT ![c.item].indicatorWidgetId = Null]
                   /\ calls' = calls (-) One(c)
              [] OTHER -> TRUE]_vars

\* a marker that was created and recorded has been removed again and the
\* record has been written back without the id
C24_CreatedMarkerRemoved ==
  /\ calls = EmptyBag
  /\ nextWidget = 3
  /\ WidgetIds[3] \notin DOMAIN widgets
  /\ store["A"] = Namespace(Annotate(StoredA, "u1", "A"), Null)

\* C25: when the recorded marker is gone, so that its lookup rejects or
\* resolves with nothing, a deleteIndicator or updateIndicatorPosition of the
\* owner goes on to write the record back without indicatorWidgetId, its
\* other keys as they were read
C25_StaleIdCleared ==
  [][\A c \in BagToSet(calls) :
       (/\ c.op \in {"update", "delete"} /\ c.pc = "lookup"
        /\ c.widget \notin DOMAIN widgets
        /\ Resumed(c)) =>
         calls' = (calls (-) One(c))
                    (+) One([c EXCEPT !.pc = "set",
                                      !.payload = [annotate |-> c.metadata.annotate,
                                                   indicatorWidgetId |-> Null]])]_vars

\* C26: an invocation whose role check fails, because the user did not create
\* the object or because the user lookup failed, ends there: it issues no
\* further host call and the records and the canvas are unchanged.  Whatever
\* changes a record or the canvas is a later step of an invocation for an
\* object of the user, and the record and the marker of an object of somebody
\* else never change.
C26_NonEditorTouchesNothing ==
  [][/\ \A c \in BagToSet(calls) :
          (/\ c.pc = "user" /\ Resumed(c)
           /\ (createdBy[c.item] # HostUserId \/ inputs' > inputs)) =>
            /\ calls' = calls (-) One(c)
            /\ UNCHANGED <<store, widgets>>
     /\ (store' # store \/ widgets' # widgets) =>
          \E c \in BagToSet(calls) :
            /\ Resumed(c) /\ c.pc \in {"create", "remove", "move", "set"}
            /\ createdBy[c.item] = HostUserId
     /\ \A i \in Items : createdBy[i] # HostUserId => store'[i] = store[i]
     /\ \A w \in DOMAIN widgets :
          createdBy[widgets[w].item] # HostUserId =>
            w \in DOMAIN widgets' /\ widgets'[w] = widgets[w]]_vars

\* an invocation for the object of somebody else has been refused and has
\* returned; the record and the marker of that object are there as before
C26_Refused ==
  /\ "refused" \in seen
  /\ calls = EmptyBag
  /\ store["B"].indicatorWidgetId = WidgetIds[2]
  /\ WidgetIds[2] \in DOMAIN widgets

\* C27: when a host call of a createIndicator, updateIndicatorPosition or
\* deleteIndicator fails, the invocation is over and has done nothing: the
\* failing step changes no record and no widget, the invocation issues no
\* further host call, and a marker it created before is not on the canvas
C27_FailureIsNoOp ==
  [][\A c \in BagToSet(calls) :
       (c.pc # "user" /\ Resumed(c) /\ inputs' > inputs) =>
         /\ UNCHANGED <<store, widgets>>
         /\ calls' = calls (-) One(c)
         /\ (c.op = "create" /\ c.pc = "set") => c.widget \notin DOMAIN widgets']_vars

\* C28: throttledUpdateIndicatorPosition invokes updateIndicatorPosition at
\* most once per window.  A call that arrives while the window is open invokes
\* nothing; a call that arrives while it is closed invokes
\* updateIndicatorPosition once and opens the window; only the expiry of the
\* timer closes it again, so between two invocations the timer has expired.
C28_AtMostOncePerWindow ==
  [][/\ \A item \in Items :
          throttledUpdateIndicatorPosition(item) =>
            IF inThrottle
            THEN calls' = calls /\ inThrottle'
            ELSE /\ CopiesIn(Call("update", item, "throttle", Null), calls')
                      = CopiesIn(Call("update", item, "throttle", Null), calls) + 1
                 /\ inThrottle'
     /\ \A c \in BagToSet(calls') :
          (c.via = "throttle" /\ c.pc = "user" /\ CopiesIn(c, calls') > CopiesIn(c, calls)) =>
            /\ ~inThrottle /\ inThrottle'
            /\ calls' = calls (+) One(c)
     /\ (inThrottle /\ ~inThrottle') => UNCHANGED <<calls, inputs, store, widgets, seen>>]_vars

\* a call arrived while the window was open and was dropped; the window is
\* still open
C28_CallDropped ==
  /\ "throttled" \in seen
  /\ inThrottle
  /\ BagCardinality(calls) <= 1

\* the markers of an object that are on the canvas
MarkersOf(item) == {w \in DOMAIN widgets : widgets[w].item = item}

\* C30: once every invocation of createIndicator, deleteIndicator and
\* syncIndicator has returned, however they were interleaved and whichever
\* host calls failed, an object has at most one marker on the canvas, and the
\* id of that marker is the indicatorWidgetId of its record
C30_OneRecordedMarker ==
  calls = EmptyBag =>
    \A item \in Items :
      /\ Cardinality(MarkersOf(item)) <= 1
      /\ \A w \in MarkersOf(item) : store[item].indicatorWidgetId = w

\* C31: a write of saveMetadata and a write of createIndicator or
\* deleteIndicator on the same object lose nothing of each other: the write
\* of the save leaves indicatorWidgetId as it is stored at that moment, and
\* the write of the indicator function leaves the annotate value as it is
\* stored at that moment
C31_NoLostUpdate ==
  [][/\ \A t \in BagToSet(tasks) :
          (t.kind = "saveSet" /\ CopiesIn(t, tasks') < CopiesIn(t, tasks)) =>
            store'[t.item].indicatorWidgetId = store[t.item].indicatorWidgetId
     /\ \A c \in BagToSet(calls) :
          (c.pc = "set" /\ Resumed(c)) =>
            store'[c.item].annotate = store[c.item].annotate]_vars

\* C32: a load checks its target again when it completes: the getMetadata
\* issued for an object does not replace the sections when another object
\* has become the selected one before it resolves, so the sections shown stay
\* those of the selected object
C32_StaleLoadIsDiscarded ==
  [][\A t \in BagToSet(tasks) :
       (/\ t.kind = "load" /\ CopiesIn(t, tasks') < CopiesIn(t, tasks)
        /\ selectedItemId \notin {Null, t.item}) =>
         UNCHANGED <<sections, sectionsSrc>>]_vars

\* every selection handler has completed: no debounced handler is waiting
\* and none is in its role check or in its load
HandlersDone ==
  /\ \A i \in 1..Len(timers) : timers[i].kind # "sel"
  /\ \A t \in BagToSet(tasks) : t.kind \notin {"role", "load"}

\* C33: when the handlers of two selections overlapped, then once both have
\* completed, with selectedItemId the object of the last selection, the
\* object that editingItemIdRef names and the role are those of that object
\* too, in whatever order the host calls resolved
C33_LastSelectionWins ==
  \A x \in Items :
    (hostSelection = <<x>> /\ selectedItemId = x /\ HandlersDone) =>
      /\ editingItemIdRef = x
      /\ isEditor => createdBy[x] = HostUserId

\* C34: what the cache holds for an object (its sections, their notes and
\* every order field) changes only in a step in which a getMetadata of a load
\* of that object or a setMetadata of a save of that object resolves; the
\* edits of the user, the renumbering ones included, leave it alone
C34_SnapshotChangesOnlyByHost ==
  [][\A k \in DOMAIN metadataCacheRef :
       (k \in DOMAIN metadataCacheRef' /\ CacheView'[k] # CacheView[k]) =>
         \E t \in BagToSet(tasks) :
           /\ t.item = k /\ t.kind \in {"load", "saveSet"}
           /\ CopiesIn(t, tasks') < CopiesIn(t, tasks)]_vars

\* the marker of the item stands at the anchor of the bounds the item has
Anchored(item) ==
  \A w \in MarkersOf(item) : widgets[w].position = calculateIndicatorPosition(bounds[item])

\* C35: once the geometry of the user's object has stopped changing, its
\* marker eventually stands, and stays, at the anchor computed from the final
\* bounds, also when a change arrived while the throttle was closed
C35_MarkerFollowsGeometry == <>[]Anchored("A")

\* the sequence of the sections and, in each, the sequence of its notes
Sequence(deep) ==
  [i \in 1..Len(deep) |->
     [id |-> deep[i].id,
      notes |-> [j \in 1..Len(deep[i].notes) |-> deep[i].notes[j].id]]]

\* C36: in every state reached by edits and saves that succeed, what a load
\* of an object takes from the cache is the same sequence of sections, with
\* the same sequence of notes in each, as what a load would take from the
\* record the host stores at that moment
C36_CacheLoadEqualsHostLoad ==
  \A k \in DOMAIN metadataCacheRef :
    store[k].annotate.present =>
      Sequence(CacheView[k]) = Sequence(Reloaded(store[k].annotate.sections))

\* C37: createNewNote of the owner of the selected object.  With no section
\* it leaves exactly one section, named General, holding exactly one new note
\* of the selected object; the note is open in the editor and a save is
\* armed.  With sections it appends the new note to the first section named
\* General, or to the first section when none has that name, and changes
\* nothing else in the sections.
C37_NewNoteLandsInDefaultSection ==
  [][createNewNote =>
       LET before == View(sections)
           after == View(sections)'
           isNew(n, sectionId) ==
             /\ n.itemId = selectedItem /\ n.sectionId = sectionId
             /\ activeNoteId' = n.id /\ editingNoteId' = n.id
             /\ currentView' = "editor"
             /\ \E i \in 1..Len(timers') : timers'[i].kind = "save"
       IN IF before = <<>>
          THEN /\ Len(after) = 1
               /\ after[1].name = "General"
               /\ Len(after[1].notes) = 1
               /\ isNew(after[1].notes[1], after[1].id)
          ELSE LET general == {i \in 1..Len(before) : before[i].name = "General"}
                   target == IF general = {} THEN 1
                             ELSE CHOOSE i \in general : \A k \in general : i <= k
               IN /\ Len(after) = Len(before)
                  /\ \A i \in 1..Len(before) :
                       IF i = target
                       THEN /\ Len(after[i].notes) = Len(before[i].notes) + 1
                            /\ SubSeq(after[i].notes, 1, Len(before[i].notes)) = before[i].notes
                            /\ isNew(after[i].notes[Len(after[i].notes)], before[i].id)
                            /\ [after[i] EXCEPT !.notes = <<>>] = [before[i] EXCEPT !.notes = <<>>]
                       ELSE after[i] = before[i]]_vars

\* where the notes of a sections value are: <<section index, note index>>
Places(deep) == UNION {{<<i, j>> : j \in 1..Len(deep[i].notes)} : i \in 1..Len(deep)}

\* C38: moveNoteToSection(noteId, from, to), for a note that is in from and a
\* section to that exists, keeps the set of notes: afterwards the note is
\* there exactly once, as the last note of to and with sectionId = to, the
\* number of notes is the same, and every other note is in the section it was
\* in; so also when from and to are the same section
C38_MoveToSectionKeepsNotes ==
  [][\A a \in Range(sections), b \in Range(sections) : \A n \in Range(secHeap[a].notes) :
       moveNoteToSection(noteHeap[n].id, secHeap[a].id, secHeap[b].id) =>
         LET noteId == noteHeap[n].id
             to == secHeap[b].id
             before == View(sections)
             after == View(sections)'
             at(deep, p) == deep[p[1]].notes[p[2]]
         IN /\ Cardinality({p \in Places(after) : at(after, p).id = noteId}) = 1
            /\ \A p \in Places(after) :
                 at(after, p).id = noteId =>
                   /\ after[p[1]].id = to
                   /\ p[2] = Len(after[p[1]].notes)
                   /\ at(after, p).sectionId = to
            /\ Cardinality(Places(after)) = Cardinality(Places(before))
            /\ \A p \in Places(before) :
                 at(before, p).id # noteId =>
                   \E q \in Places(after) :
                     /\ at(after, q).id = at(before, p).id
                     /\ after[q[1]].id = before[p[1]].id]_vars

\* C39: whenever a single object is selected and its selection has been
\* processed to the end of its load, activeNoteId and editingNoteId are null
\* or the id of a note of the sections shown, and the view is the editor only
\* with such a note open; so also after the selection went from A, with a
\* note open in the editor, straight to B
C39_OpenNoteIsOfShownSections ==
  \A x \in Items :
    (Settled(x) /\ selectedItemId = x /\ selectionCount = 1 /\ HandlersDone) =>
      /\ activeNoteId \in {NoId} \cup NoteIds(sections)
      /\ editingNoteId \in {NoId} \cup NoteIds(sections)
      /\ currentView = "editor" =>
           (activeNoteId \in NoteIds(sections) /\ editingNoteId \in NoteIds(sections))


====
